---- MODULE Spec2Model ----
(***************************************************************************)
(* Verification model of the synthetic relational data generator:          *)
(*   - FieldGeneratorFactory (data_generator.py): uniqueness-tracked       *)
(*     field-value generators with bounded retry and fallback;             *)
(*   - FakerSQLAlchemyStrategy.generate_data and                           *)
(*     DatabaseGenerator.generate_and_store / _store_data                  *)
(*     (database_generator.py);                                            *)
(*   - DataGenerationEngine.generate_database /                            *)
(*     generate_complete_database (data_generator.py);                     *)
(*   - ExportManager.export_data (export_manager.py).                      *)
(*   - the stage methods of DataGenerationEngine called one by one, the    *)
(*     generator factory and DatabaseGenerator.generate_database;          *)
(*   - SchemaConverter / SchemaManager.convert_swagger_to_definition       *)
(*     (schema_converter.py, schema_manager.py);                           *)
(*   - SchemaRegistration.get_generator_type and                           *)
(*     FieldGeneratorFactory.create_generator with the integer, float and  *)
(*     choice generators (data_generator.py);                              *)
(*   - ExportManager._export_to_sql and _sql_value_formatter, one table    *)
(*     (export_manager.py);                                                *)
(*   - DatabaseGenerator.export_data (database_generator.py);              *)
(*   - convert_definition_to_generator_schema applied to a field entry     *)
(*     before its generator is resolved (data_generator.py).               *)
(*                                                                         *)
(* Values are represented structurally:                                    *)
(*   national ID    a sequence of 9 decimal digits (the characters of the  *)
(*                  string);                                               *)
(*   e-mail         <<"fake", i>> for the i-th address of the faker        *)
(*                  provider, <<"unique", n>> for "unique_<n>@example.com";*)
(*   phone          <<prefix, number>> for "<prefix>-<number>";            *)
(*   account number <<"digits", n>> for str(n), <<"A", n>> for "A%07d";    *)
(*   card number    <<"card", i>> for the i-th number of the provider.     *)
(* The random source is sampled: every draw picks a seed in Seeds, so a    *)
(* draw may repeat an earlier one any number of times.  The faker provider *)
(* is taken never to produce an address of the form unique_<n>@example.com.*)
(* A run generates at most MaxCalls field values.                          *)
(***************************************************************************)
EXTENDS Integers, Sequences, FiniteSets, TLC

\* ---------------------------------------------------------------- bounds
NumCandidates == 2
MaxRecords == 3
MaxTables == 2
MaxCalls == 4

\* ------------------------------------------------------ program constants
max_attempts == 100

Seeds == 1..NumCandidates

\* FieldGeneratorFactory.used_values: the categories of the registry
Categories == {"israeli_ids", "account_numbers", "credit_cards", "emails", "phones"}

\* SchemaRegistration.field_patterns, English entries bound to the
\* generators modelled here (field name -> generator type)
field_patterns ==
  [n \in {"israeli_id", "id_number", "credit_card_number", "account_number", "phone", "email"} |->
     CASE n = "israeli_id"         -> "israeli_id"
       [] n = "id_number"          -> "israeli_id"
       [] n = "credit_card_number" -> "credit_card"
       [] n = "account_number"     -> "account_number"
       [] n = "phone"              -> "phone"
       [] n = "email"              -> "email"]

\* SchemaRegistration.get_generator_type: exact match on the registered
\* names (every field name of the model is a registered name)
get_generator_type(field_name) ==
  IF field_name \in DOMAIN field_patterns THEN field_patterns[field_name] ELSE "None"

\* the registry category each generator consults; credit_card consults none
CategoryOf(gen) ==
  CASE gen = "email"          -> "emails"
    [] gen = "phone"          -> "phones"
    [] gen = "israeli_id"     -> "israeli_ids"
    [] gen = "account_number" -> "account_numbers"
    [] OTHER                  -> "none"

\* ------------------------------------------------------------ national ID
\* [random.randint(0, 9) for _ in range(8)], sampled by seed
RandomDigits(seed) == [i \in 1..8 |-> (seed * i + 3) % 10]

weights == <<1, 2, 1, 2, 1, 2, 1, 2>>

WeightsMut == <<2, 1, 2, 1, 2, 1, 2, 1>>

\* one term of the weighted sum: digit_product if < 10 else digit_product - 9
DigitTerm(d, w) == LET digit_product == d * w
                   IN IF digit_product < 10 THEN digit_product ELSE digit_product - 9

RECURSIVE WeightedSumUpTo(_, _, _)
WeightedSumUpTo(id_num, ws, n) ==
  IF n = 0 THEN 0 ELSE WeightedSumUpTo(id_num, ws, n - 1) + DigitTerm(id_num[n], ws[n])

IsraeliIdOfMut(id_num) ==
  LET weighted_sum == WeightedSumUpTo(id_num, WeightsMut, 8)
      check_digit  == (10 - (weighted_sum % 10)) % 10
  IN Append(id_num, check_digit)

\* the candidate of one attempt: 8 digits with the check digit appended
IsraeliIdOf(id_num) ==
  LET weighted_sum == WeightedSumUpTo(id_num, weights, 8)
      check_digit  == (10 - (weighted_sum % 10)) % 10
  IN Append(id_num, check_digit)

\* str(n) as a sequence of decimal digits
RECURSIVE DecimalDigits(_)
DecimalDigits(n) == IF n < 10 THEN <<n>> ELSE Append(DecimalDigits(n \div 10), n % 10)

\* f"{n:0<width>d}": left-padded with zeros to at least width characters
RECURSIVE ZeroPad(_, _)
ZeroPad(ds, width) == IF Len(ds) >= width THEN ds ELSE ZeroPad(<<0>> \o ds, width)

\* f"1{len(used):08d}"
IsraeliIdFallback(n) == <<1>> \o ZeroPad(DecimalDigits(n), 8)

\* -------------------------------------------------------- other generators
prefixes == <<"050", "052", "053", "054", "055", "057", "058">>

\* the value one attempt of a generator draws (before the registry check)
Candidate(gen, seed) ==
  CASE gen = "email"          -> <<"fake", seed>>
    [] gen = "phone"          -> <<prefixes[((seed - 1) % 7) + 1], 1000000 + seed - 1>>
    [] gen = "israeli_id"     -> IsraeliIdOf(RandomDigits(seed))
    [] gen = "account_number" -> <<"digits", 100000 + seed - 1>>
    [] gen = "credit_card"    -> <<"card", seed>>

\* the value returned once every attempt collided; used is the registry of
\* the generator's category, seed feeds the phone fallback's randint
FallbackValue(gen, used, seed) ==
  CASE gen = "email"          -> <<"unique", Cardinality(used)>>
    [] gen = "phone"          -> <<"059", 1000000 + seed - 1>>
    [] gen = "israeli_id"     -> IsraeliIdFallback(Cardinality(used))
    [] gen = "account_number" -> <<"A", Cardinality(used)>>

\* the attempt loop is over: for _ in range(max_attempts)
LoopExhaustedMut(n) == n >= max_attempts + 1

LoopExhausted(n) == n >= max_attempts

\* ---------------------------------------------------------------- schemas
TableNames == <<"users", "accounts", "credit_cards", "transactions">>

\* the field lists a table of the model may have
Shapes == { <<"email">>, <<"phone">>, <<"israeli_id">>, <<"account_number">>,
            <<"credit_card_number">>, <<"id_number", "email">> }

VARIABLES
  schema,        \* generate_data's schema: sequence of [name, fields]
  num_records,   \* generate_data's num_records
  used_values,   \* FieldGeneratorFactory.used_values
  result,        \* generate_data's result: table index -> rows generated
  record,        \* the row being built (values in field order)
  t, f,          \* table and field position of generate_data's loops
  attempts,      \* attempts made by the running generator call
  calls,         \* log of generator returns (history)
  pc,            \* position in generate_and_store
  db,            \* the destination store: committed rows per table
  db0,           \* the store as it was when the run started (history)
  session,       \* rows inserted in the open session, not yet committed
  store_t,       \* table position of _store_data's loop
  failed_table,  \* index of the table whose insert failed, 0 if none
  engine,        \* DataGenerationEngine: the stage results kept on the instance
  args,          \* arguments of the running generate_complete_database call
  pipe_pc,       \* position in generate_complete_database
  stages_run,    \* stages entered by the running call, in order (history)
  stages_failed, \* stages of the running call that failed, in order (history)
  error_text,    \* text of the exception raised by the failed stage (history)
  pipe_result,   \* what generate_complete_database returned
  runs,          \* number of generate_complete_database calls made
  exp_formats,   \* ExportManager.export_data's formats argument
  exp_tables,    \* inspector.get_table_names() of the store exported
  exp_i,         \* position of export_data's loop over formats
  exp_pc,        \* position in ExportManager.export_data
  export_results,\* export_data's export_results: format -> result
  written,       \* <<format, table>> of every table exported so far
  exp_bad,       \* format -> tables whose export raised (history)
  exp_format_ok, \* format -> FALSE when the format failed as a whole (history)
  gen_run,       \* number of the generate_and_store run in progress
  used0,         \* used_values as the run in progress found it (history)
  effects,       \* generators, generator schemas, tables and rows produced
  clock,         \* the wall clock, in seconds
  report_files,  \* the report files of the db folder: second -> run that wrote it
  report_log,    \* every report written, in order (history)
  snapshot,      \* engine and effects when the running call started (history)
  import_ok,     \* database_generator can be imported in this environment
  last_call,     \* the last stage method or function called, and how it ended
  ops,           \* number of stage methods and functions called
  held_schema,   \* the generator schema the caller got from the last conversion
  field,         \* the field create_generator is called for: [name, config]
  binding,       \* the generator create_generator returned for the field
  value,         \* what the last call of the field's generator gave
  generated,     \* number of calls of the field's generator
  swagger,       \* the document given to the translator: schema name -> entry
  target_arg,    \* the target system given to the translator
  translated,    \* the Definition the translator returned
  derived,       \* the generator schema derived from the Definition
  materialized,  \* the tables _create_tables_from_schema made of the schema
  stored,        \* the rows generate_and_store left in the tables
  sql_table,     \* the stored table _export_to_sql is exporting
  df,            \* the frame read from the table
  create_table_sql,\* the compiled CREATE TABLE statement
  insert_statements,\* the INSERT statements built so far
  sql_file,      \* the statements written to <table>.sql
  sql_pc,        \* position in the loop body
  export_formats,\* the formats DatabaseGenerator.export_data was given
  table_names,   \* the tables of the store
  format_i,      \* index of the format in turn
  table_i,       \* index of the table in turn
  file_path,     \* the local file_path of export_data
  format_results,\* the entries of the format in turn
  db_results,    \* the results returned, per format
  db_files,      \* the files in the output directory
  io_failed,     \* the (format, table) turns in which reading or writing raised
  db_pc,         \* position in export_data
  conversion     \* the Definition's field entry a converted entry came from, and the flattened hints

genVars == <<schema, num_records, used_values, result, record, t, f, attempts, calls,
             pc, db, db0, session, store_t, failed_table>>

pipeVars == <<engine, args, pipe_pc, stages_run, stages_failed, error_text, pipe_result, runs,
              effects, clock, report_files, report_log, snapshot, import_ok>>

apiVars == <<last_call, ops, held_schema>>

expVars == <<exp_formats, exp_tables, exp_i, exp_pc, export_results, written,
             exp_bad, exp_format_ok>>

runVars == <<gen_run, used0>>

resVars == <<field, binding, value, generated>>

trVars == <<swagger, target_arg, translated, derived, materialized, stored>>

sqlVars == <<sql_table, df, create_table_sql, insert_statements, sql_file, sql_pc>>

dbxVars == <<export_formats, table_names, format_i, table_i, file_path, format_results, db_results, db_files, io_failed, db_pc>>

cvVars == <<conversion>>

vars == <<genVars, pipeVars, expVars, runVars, apiVars, resVars, trVars, sqlVars, dbxVars, cvVars>>

otherThanSql == <<genVars, pipeVars, expVars, runVars, apiVars, resVars, trVars, dbxVars, cvVars>>

otherThanDbExport == <<genVars, pipeVars, expVars, runVars, apiVars, resVars, trVars, sqlVars, cvVars>>

otherThanConvert == <<genVars, pipeVars, expVars, runVars, apiVars, trVars, sqlVars, dbxVars>>

otherThanGen == <<pipeVars, expVars, runVars, apiVars, resVars, trVars, sqlVars, dbxVars, cvVars>>

otherThanPipe == <<genVars, expVars, runVars, apiVars, resVars, trVars, sqlVars, dbxVars, cvVars>>

otherThanExport == <<genVars, pipeVars, runVars, apiVars, resVars, trVars, sqlVars, dbxVars, cvVars>>

otherThanResolve == <<genVars, pipeVars, expVars, runVars, apiVars, trVars, sqlVars, dbxVars, cvVars>>

otherThanTranslate == <<genVars, pipeVars, expVars, runVars, apiVars, resVars, sqlVars, dbxVars, cvVars>>

\* FieldGeneratorFactory.create_generator for a field without generation
\* hints: the registered name pattern decides, else the declared type
create_generator(field_name) ==
  LET generator_type == get_generator_type(field_name)
  IN IF generator_type # "None" THEN generator_type ELSE "string"

\* a row written by an earlier process into a table of the given shape
PriorRow(shape) == [j \in 1..Len(shape) |-> Candidate(create_generator(shape[j]), 1)]

NoRows(n) == [i \in 1..n |-> <<>>]

InitGen ==
  /\ \E n \in 1..MaxTables, shape \in Shapes :
        schema = [i \in 1..n |-> [name |-> TableNames[i], fields |-> shape]]
  /\ num_records \in {k \in 1..MaxRecords : Len(schema) * k * Len(schema[1].fields) <= MaxCalls}
  /\ used_values = [c \in Categories |-> {}]
  /\ result = NoRows(Len(schema))
  /\ record = <<>>
  /\ t = 1
  /\ f = 1
  /\ attempts = 0
  /\ calls = <<>>
  /\ pc = "generate"
  /\ \E prior \in BOOLEAN :
        db = [i \in 1..Len(schema) |->
                IF prior THEN <<PriorRow(schema[i].fields)>> ELSE <<>>]
  /\ db0 = db
  /\ session = NoRows(Len(schema))
  /\ store_t = 1
  /\ failed_table = 0

\* the generator bound to the field generate_data is about to fill
CurrentGen == create_generator(schema[t].fields[f])

\* record[field_name] = generator(); records.append(record) after the last
\* field; result[table_name] = records after the last record
Return(gen, v, exhausted) ==
  LET fields == schema[t].fields
      row    == Append(record, v)
  IN /\ calls' = Append(calls, [gen |-> gen, value |-> v, exhausted |-> exhausted,
                                table |-> t, field |-> f])
     /\ attempts' = 0
     /\ IF f < Len(fields)
        THEN /\ f' = f + 1
             /\ record' = row
             /\ UNCHANGED <<result, t, pc>>
        ELSE /\ f' = 1
             /\ record' = <<>>
             /\ result' = [result EXCEPT ![t] = Append(@, row)]
             /\ IF Len(result[t]) + 1 < num_records
                THEN UNCHANGED <<t, pc>>
                ELSE IF t < Len(schema)
                     THEN t' = t + 1 /\ UNCHANGED pc
                     ELSE UNCHANGED t /\ pc' = "create_tables"

storeVars == <<db, db0, session, store_t, failed_table>>

\* _generate_credit_card: return self.fake.credit_card_number()
GenerateCreditCard ==
  /\ pc = "generate"
  /\ CurrentGen = "credit_card"
  /\ \E seed \in Seeds : Return("credit_card", Candidate("credit_card", seed), FALSE)
  /\ UNCHANGED <<schema, num_records, used_values>>
  /\ UNCHANGED storeVars
  /\ UNCHANGED otherThanGen

\* one iteration of "for _ in range(max_attempts)" of _generate_email,
\* _generate_phone, _generate_israeli_id, _generate_account_number
Attempt ==
  /\ pc = "generate"
  /\ CategoryOf(CurrentGen) # "none"
  /\ ~LoopExhausted(attempts)
  /\ \E seed \in Seeds :
       LET cat  == CategoryOf(CurrentGen)
           cand == Candidate(CurrentGen, seed)
       IN IF cand \notin used_values[cat]
          THEN /\ used_values' = [used_values EXCEPT ![cat] = @ \cup {cand}]
               /\ Return(CurrentGen, cand, FALSE)
          ELSE /\ attempts' = attempts + 1
               /\ UNCHANGED <<used_values, result, record, t, f, calls, pc>>
  /\ UNCHANGED <<schema, num_records>>
  /\ UNCHANGED storeVars
  /\ UNCHANGED otherThanGen

\* the return statement after the loop of the four tracked generators
Fallback ==
  /\ pc = "generate"
  /\ CategoryOf(CurrentGen) # "none"
  /\ LoopExhausted(attempts)
  /\ \E seed \in Seeds :
       Return(CurrentGen, FallbackValue(CurrentGen, used_values[CategoryOf(CurrentGen)], seed), TRUE)
  /\ UNCHANGED <<schema, num_records, used_values>>
  /\ UNCHANGED storeVars
  /\ UNCHANGED otherThanGen

genOnly == <<schema, num_records, used_values, result, record, t, f, attempts, calls>>

\* DatabaseGenerator._create_tables_from_schema; create_all may raise
CreateTables ==
  /\ pc = "create_tables"
  /\ \E ok \in BOOLEAN :
       IF ok THEN pc' = "store" ELSE pc' = "raised"
  /\ UNCHANGED genOnly
  /\ UNCHANGED storeVars
  /\ UNCHANGED otherThanGen

\* _store_data, one table of "for table_name, records in data.items()":
\* every record is inserted in the one session, or an insert raises after
\* k records of the table went in
StoreTable ==
  /\ pc = "store"
  /\ store_t <= Len(schema)
  /\ \/ /\ session' = [session EXCEPT ![store_t] = result[store_t]]
        /\ store_t' = store_t + 1
        /\ UNCHANGED <<pc, failed_table>>
     \/ \E k \in 0..(Len(result[store_t]) - 1) :
          /\ session' = [session EXCEPT ![store_t] = SubSeq(result[store_t], 1, k)]
          /\ failed_table' = store_t
          /\ pc' = "rollback"
          /\ UNCHANGED store_t
  /\ UNCHANGED genOnly
  /\ UNCHANGED <<db, db0>>
  /\ UNCHANGED otherThanGen

\* session.commit(): the rows of the session become durable
Commit(d, s) == [i \in DOMAIN d |-> d[i] \o s[i]]

\* _store_data after the loop: session.commit(), which may raise
StoreCommit ==
  /\ pc = "store"
  /\ store_t > Len(schema)
  /\ \/ /\ db' = Commit(db, session)
        /\ session' = NoRows(Len(schema))
        /\ pc' = "stored"
        /\ UNCHANGED failed_table
     \/ /\ pc' = "rollback"
        /\ UNCHANGED <<db, session, failed_table>>
  /\ UNCHANGED genOnly
  /\ UNCHANGED <<db0, store_t>>
  /\ UNCHANGED otherThanGen

RollbackMut(d, s) == Commit(d, s)

\* session.rollback(): the rows of the session are discarded
Rollback(d, s) == d

\* except: session.rollback(); raise
StoreRollback ==
  /\ pc = "rollback"
  /\ db' = Rollback(db, session)
  /\ session' = NoRows(Len(schema))
  /\ pc' = "raised"
  /\ UNCHANGED genOnly
  /\ UNCHANGED <<db0, store_t, failed_table>>
  /\ UNCHANGED otherThanGen

\* ------------------------------------------------------- repeated runs
MaxGenRuns == 2

\* the next run of generate_and_store starts from the top of generate_data
\* with the same schema against the same destination
StartRun ==
  /\ pc \in {"stored", "raised"}
  /\ gen_run < MaxGenRuns
  /\ Len(calls) + Len(schema) * num_records * Len(schema[1].fields) <= MaxCalls
  /\ gen_run' = gen_run + 1
  /\ result' = NoRows(Len(schema))
  /\ record' = <<>>
  /\ t' = 1
  /\ f' = 1
  /\ attempts' = 0
  /\ pc' = "generate"
  /\ db0' = db
  /\ session' = NoRows(Len(schema))
  /\ store_t' = 1
  /\ failed_table' = 0
  /\ UNCHANGED <<schema, num_records, calls, db>>
  /\ UNCHANGED <<pipeVars, expVars, apiVars, resVars, trVars, sqlVars, dbxVars, cvVars>>

\* generate_and_store is called again on the same DatabaseGenerator: its
\* strategy keeps the FieldGeneratorFactory built in __init__, and with it
\* used_values
GenerateAgain ==
  /\ StartRun
  /\ used0' = used_values
  /\ UNCHANGED used_values

\* create_generator builds a new DatabaseGenerator for the same destination
\* and generate_and_store is called on it: FakerSQLAlchemyStrategy.__init__
\* builds a new FieldGeneratorFactory, whose used_values are empty
GenerateOnNewGenerator ==
  /\ StartRun
  /\ used_values' = [c \in Categories |-> {}]
  /\ used0' = [c \in Categories |-> {}]

\* ------------------------------------------------- DataGenerationEngine
StageOrder == <<"load", "prepare_url", "create_generator", "convert_schema",
                "generate", "export", "report">>

\* the definition files a call may name and what load_definition_file and
\* convert_definition_to_generator_schema find in them
DefinitionFiles == {"bank_definition.json", "missing.json", "broken.json",
                    "no_tables.json", "bad_tables.json", "empty_tables.json"}

\* the names in the "tables" section of a definition: empty_tables.json holds
\* "tables": {}, bad_tables.json holds a list, no_tables.json no such key
TablesOf(definition) ==
  IF definition = "bank_definition.json" THEN {"users", "accounts"} ELSE {}

Strategies == {"faker", "sdv"}

DbUrlArgs == {"None", "sqlite:///custom.db", "not a url"}

\* the two workflows: generate_database (steps 1-5) and
\* generate_complete_database (steps 1-7)
EntryPoints == {"generate_database", "generate_complete_database"}

NoGenerator == [kind |-> "None", strategy |-> "None", db_url |-> "None"]

NoResult == [status |-> "None"]

\* DataGenerationEngine.__init__: "Track generation state"
NewEngine ==
  [definition_file   |-> "None",
   definition_schema |-> "None",
   db_url            |-> "None",
   generator         |-> NoGenerator,
   generation_result |-> NoResult,
   export_result     |-> NoResult]

\* what exists outside the engine: generators built, generator schemas
\* produced (by definition), tables created and tables holding generated
\* rows (by destination)
NoEffects == [generators |-> {}, schemas |-> {}, tables |-> {}, rows |-> {}]

\* load_definition_file: the exception it raises for a file, "" if none
LoadError(file) ==
  CASE file = "missing.json"   -> "Definition file not found: missing.json"
    [] file = "broken.json"    -> "Expecting value: line 1 column 1 (char 0)"
    [] file = "no_tables.json" -> "Invalid definition file: missing 'tables' section"
    [] OTHER                   -> ""

AfterLoadMut(e, file) ==
  [e EXCEPT !.definition_file = file,
            !.definition_schema = IF LoadError(file) # "" THEN @ ELSE file]

\* load_definition_file: the instance after the call; the two assignments
\* come after every check
AfterLoad(e, file) ==
  IF LoadError(file) # "" THEN e
  ELSE [e EXCEPT !.definition_file = file, !.definition_schema = file]

\* prepare_database_url without db_name: the custom URL, else a SQLite file
\* named after the definition file's stem without "_definition"
PreparedUrl(db_url, definition_file) ==
  IF db_url # "None" THEN db_url
  ELSE CASE definition_file = "bank_definition.json" -> "sqlite:///bank.db"
         [] definition_file = "bad_tables.json"      -> "sqlite:///bad_tables.db"
         [] definition_file = "empty_tables.json"    -> "sqlite:///empty_tables.db"
         [] definition_file = "no_tables.json"       -> "sqlite:///no_tables.db"
         [] definition_file = "broken.json"          -> "sqlite:///broken.db"
         [] definition_file = "missing.json"         -> "sqlite:///missing.db"
         [] OTHER                                    -> "sqlite:///generated.db"

\* the factory function create_generator: the exception raised for a
\* strategy and a destination, "" if none
FactoryErrorMut(strategy, db_url) ==
  IF db_url = "not a url" THEN "Could not parse SQLAlchemy URL from string 'not a url'"
  ELSE ""

FactoryError(strategy, db_url) ==
  IF strategy # "faker" THEN "Unknown strategy: sdv. Available strategies: ['faker']"
  ELSE IF db_url = "not a url" THEN "Could not parse SQLAlchemy URL from string 'not a url'"
  ELSE ""

\* DataGenerationEngine.create_generator: the exception raised, "" if none;
\* when database_generator cannot be imported, _create_direct_generator
\* takes any strategy
CreateGeneratorError(strategy, db_url, importable) ==
  IF db_url = "None" THEN "Database URL not prepared. Call prepare_database_url() first."
  ELSE IF importable THEN FactoryError(strategy, db_url)
  ELSE IF db_url = "not a url" THEN "Could not parse SQLAlchemy URL from string 'not a url'"
  ELSE ""

\* the generator create_generator builds: the factory's DatabaseGenerator,
\* or the placeholder DirectGenerator when the import failed
BuiltGenerator(strategy, db_url, importable) ==
  [kind     |-> IF importable THEN "DatabaseGenerator" ELSE "DirectGenerator",
   strategy |-> strategy,
   db_url   |-> db_url]

\* convert_definition_to_generator_schema: the exception raised for a
\* loaded definition, "" if none
ConvertError(definition) ==
  IF definition = "None" THEN "No definition schema available. Call load_definition_file() first."
  ELSE IF definition = "bad_tables.json" THEN "'list' object has no attribute 'items'"
  ELSE ""

\* how generator.generate_and_store may end: DirectGenerator only returns a
\* dictionary; DatabaseGenerator returns, or raises from
\* _create_tables_from_schema or from _store_data
GenerateOutcomes(generator) ==
  IF generator.kind = "DirectGenerator" THEN {"stored"}
  ELSE {"stored", "raised_create", "raised_store"}

\* what generate_and_store leaves in the destination
AfterGenerate(eff, generator, tables, outcome) ==
  IF generator.kind = "DirectGenerator" \/ outcome = "raised_create" THEN eff
  ELSE [eff EXCEPT
          !.tables = @ \cup {<<generator.db_url, x>> : x \in tables},
          !.rows   = IF outcome = "stored"
                     THEN @ \cup {<<generator.db_url, x>> : x \in tables}
                     ELSE @]

\* the dictionary generate_database_data stores and returns
GenerationResult(e, definition, status) ==
  [status          |-> status,
   definition_file |-> e.definition_file,
   strategy_used   |-> e.generator.strategy,
   database_url    |-> e.db_url,
   tables_created  |-> TablesOf(definition)]

ErrorResultMut(e, a) ==
  [status          |-> "error",
   message         |-> "Database generation workflow failed",
   definition_file |-> a.definition_file,
   strategy        |-> a.strategy,
   db_url          |-> IF a.db_url # "None" THEN a.db_url ELSE "auto-generated"]

\* the dictionary generate_database returns from its except clause
ErrorResult(e, a) ==
  [status          |-> "error",
   message         |-> e,
   definition_file |-> a.definition_file,
   strategy        |-> a.strategy,
   db_url          |-> IF a.db_url # "None" THEN a.db_url ELSE "auto-generated"]

MaxRuns == 2

\* no workflow has been called
NoArgs == [entry |-> "None", definition_file |-> "None", strategy |-> "None",
           db_url |-> "None"]

\* a new engine on which no workflow has been called; importable tells
\* whether syntetic_data_create.database_generator can be imported
PipeStart(importable) ==
  /\ engine = NewEngine
  /\ args = NoArgs
  /\ pipe_pc = "idle"
  /\ stages_run = <<>>
  /\ stages_failed = <<>>
  /\ error_text = ""
  /\ pipe_result = NoResult
  /\ runs = 0
  /\ effects = NoEffects
  /\ clock = 0
  /\ report_files = <<>>
  /\ report_log = <<>>
  /\ snapshot = [for |-> "None", engine |-> NewEngine, effects |-> NoEffects]
  /\ import_ok = importable

InitPipe == \E importable \in BOOLEAN : PipeStart(importable)

\* a stage of generate_database raised e: its except clause builds the error
\* dictionary and generate_complete_database returns it unchanged
StageRaises(stage, e) ==
  /\ stages_failed' = Append(stages_failed, stage)
  /\ error_text' = e
  /\ pipe_result' = ErrorResult(e, args)
  /\ pipe_pc' = "returned"

StageEnters(stage) == stages_run' = Append(stages_run, stage)

reportVars == <<clock, report_files, report_log>>

\* generate_database or generate_complete_database is called with
\* (definition_file, strategy, db_url)
StartWorkflow(entries, urls) ==
  /\ pipe_pc \in {"idle", "returned"}
  /\ runs < MaxRuns
  /\ \E entry \in entries, file \in DefinitionFiles, strategy \in Strategies,
        url \in urls :
       args' = [entry |-> entry, definition_file |-> file, strategy |-> strategy,
                db_url |-> url]
  /\ runs' = runs + 1
  /\ pipe_pc' = "load"
  /\ stages_run' = <<>>
  /\ stages_failed' = <<>>
  /\ error_text' = ""
  /\ pipe_result' = NoResult
  /\ snapshot' = [for |-> "run", engine |-> engine, effects |-> effects]
  /\ UNCHANGED <<engine, effects, import_ok>>
  /\ UNCHANGED reportVars
  /\ UNCHANGED <<genVars, expVars, runVars, resVars, trVars, sqlVars, dbxVars, cvVars>>

\* a workflow is called on an engine used for workflows only
Call ==
  /\ StartWorkflow(EntryPoints, DbUrlArgs)
  /\ UNCHANGED apiVars

\* Step 1: load_definition_file
StageLoad ==
  /\ pipe_pc = "load"
  /\ StageEnters("load")
  /\ engine' = AfterLoad(engine, args.definition_file)
  /\ IF LoadError(args.definition_file) # ""
     THEN StageRaises("load", LoadError(args.definition_file))
     ELSE /\ pipe_pc' = "prepare_url"
          /\ UNCHANGED <<stages_failed, error_text, pipe_result>>
  /\ UNCHANGED <<args, runs, effects, snapshot, import_ok>>
  /\ UNCHANGED reportVars
  /\ UNCHANGED otherThanPipe

\* Step 2: prepare_database_url
StagePrepareUrl ==
  /\ pipe_pc = "prepare_url"
  /\ StageEnters("prepare_url")
  /\ engine' = [engine EXCEPT !.db_url = PreparedUrl(args.db_url, engine.definition_file)]
  /\ pipe_pc' = "create_generator"
  /\ UNCHANGED <<stages_failed, error_text, pipe_result, args, runs>>
  /\ UNCHANGED <<effects, snapshot, import_ok>>
  /\ UNCHANGED reportVars
  /\ UNCHANGED otherThanPipe

\* Step 3: create_generator
StageCreateGenerator ==
  /\ pipe_pc = "create_generator"
  /\ StageEnters("create_generator")
  /\ LET e == CreateGeneratorError(args.strategy, engine.db_url, import_ok)
         g == BuiltGenerator(args.strategy, engine.db_url, import_ok)
     IN IF e # ""
        THEN /\ StageRaises("create_generator", e)
             /\ UNCHANGED <<engine, effects>>
        ELSE /\ engine' = [engine EXCEPT !.generator = g]
             /\ effects' = [effects EXCEPT !.generators = @ \cup {g}]
             /\ pipe_pc' = "convert_schema"
             /\ UNCHANGED <<stages_failed, error_text, pipe_result>>
  /\ UNCHANGED <<args, runs, snapshot, import_ok>>
  /\ UNCHANGED reportVars
  /\ UNCHANGED otherThanPipe

\* Step 4: convert_definition_to_generator_schema(definition); the generator
\* schema is returned to generate_database, which holds it in a local
StageConvert ==
  /\ pipe_pc = "convert_schema"
  /\ StageEnters("convert_schema")
  /\ LET e == ConvertError(engine.definition_schema)
     IN IF e # ""
        THEN /\ StageRaises("convert_schema", e)
             /\ UNCHANGED effects
        ELSE /\ effects' = [effects EXCEPT !.schemas = @ \cup {engine.definition_schema}]
             /\ pipe_pc' = "generate"
             /\ UNCHANGED <<stages_failed, error_text, pipe_result>>
  /\ UNCHANGED <<engine, args, runs, snapshot, import_ok>>
  /\ UNCHANGED reportVars
  /\ UNCHANGED otherThanPipe

\* Step 5: generate_database_data; generator.generate_and_store returns or
\* raises.  generate_database then sets result["status"] = "success" and
\* returns the result; generate_complete_database goes on to export
StageGenerate ==
  /\ pipe_pc = "generate"
  /\ StageEnters("generate")
  /\ \E outcome \in GenerateOutcomes(engine.generator) :
       LET res == GenerationResult(engine, engine.definition_schema, "success")
       IN /\ effects' = AfterGenerate(effects, engine.generator,
                                      TablesOf(engine.definition_schema), outcome)
          /\ IF outcome # "stored"
             THEN /\ StageRaises("generate", "Error storing data")
                  /\ UNCHANGED engine
             ELSE /\ engine' = [engine EXCEPT !.generation_result = res]
                  /\ UNCHANGED <<stages_failed, error_text>>
                  /\ IF args.entry = "generate_database"
                     THEN pipe_result' = res /\ pipe_pc' = "returned"
                     ELSE pipe_pc' = "export" /\ UNCHANGED pipe_result
  /\ UNCHANGED <<args, runs, snapshot, import_ok>>
  /\ UNCHANGED reportVars
  /\ UNCHANGED otherThanPipe

\* Step 6: export_data; an exception is caught inside export_data, which
\* then returns {"error": str(e)} without storing it
StageExport ==
  /\ pipe_pc = "export"
  /\ StageEnters("export")
  /\ \E ok \in BOOLEAN :
       IF ok
       THEN /\ engine' = [engine EXCEPT !.export_result =
                             [status |-> "exported", database_url |-> engine.db_url]]
            /\ UNCHANGED <<stages_failed, error_text>>
       ELSE /\ stages_failed' = Append(stages_failed, "export")
            /\ error_text' = "Export failed"
            /\ UNCHANGED engine
  /\ pipe_pc' = "report"
  /\ UNCHANGED <<pipe_result, args, runs, effects, snapshot, import_ok>>
  /\ UNCHANGED reportVars
  /\ UNCHANGED otherThanPipe

\* generate_report's file: generation_report_<%Y%m%d_%H%M%S>.json in the
\* db folder, named by the second it is written in; writing it replaces a
\* file of the same name
WriteReport(files, second, content) == (second :> content) @@ files

\* Step 7: generate_report, which returns {"error": str(e)} when it fails;
\* then complete_result is returned with "status": "success".  The second of
\* the wall clock may have changed since the last report was written
StageReport ==
  /\ pipe_pc = "report"
  /\ StageEnters("report")
  /\ \E ok \in BOOLEAN :
       /\ IF ok
          THEN /\ \E tick \in {0, 1} : clock' = clock + tick
               /\ report_files' = WriteReport(report_files, clock', runs)
               /\ report_log' = Append(report_log, [run |-> runs, second |-> clock'])
               /\ UNCHANGED <<stages_failed, error_text>>
          ELSE /\ stages_failed' = Append(stages_failed, "report")
               /\ error_text' = "Report failed"
               /\ UNCHANGED <<clock, report_files, report_log>>
       /\ pipe_result' =
            [status          |-> "success",
             definition_file |-> args.definition_file,
             strategy_used   |-> args.strategy,
             database_url    |-> engine.db_url,
             export_results  |-> IF stages_failed = <<>> THEN "files" ELSE error_text,
             report_file     |-> IF ok THEN "generation_report.json" ELSE "None"]
  /\ pipe_pc' = "returned"
  /\ UNCHANGED <<engine, args, runs, effects, snapshot, import_ok>>
  /\ UNCHANGED otherThanPipe


\* ------------------------------------- stage methods called one at a time
MaxOps == 3

NoPayload == [nothing |-> "None"]

\* no generator schema: the caller passes None
NoSchema == [generator_schema |-> "None"]

NoCall == [op |-> "None", arg |-> NoPayload, outcome |-> "None",
           payload |-> NoPayload, error |-> ""]

\* no stage method has been called on its own
IdleApi ==
  /\ last_call = NoCall
  /\ ops = 0
  /\ held_schema = NoSchema

\* a stage method or a function is called while no workflow is running;
\* what the last workflow returned is the caller's no longer
Called ==
  /\ pipe_pc \in {"idle", "returned"}
  /\ ops + runs < MaxOps
  /\ ops' = ops + 1
  /\ snapshot' = [for |-> "op", engine |-> engine, effects |-> effects]
  /\ args' = NoArgs
  /\ pipe_pc' = "idle"
  /\ stages_run' = <<>>
  /\ stages_failed' = <<>>
  /\ error_text' = ""
  /\ pipe_result' = NoResult
  /\ UNCHANGED <<runs, import_ok>>
  /\ UNCHANGED <<genVars, expVars, runVars, resVars, trVars, sqlVars, dbxVars, cvVars>>

\* the call returns payload to the caller
Returns(op, arg, payload) ==
  last_call' = [op |-> op, arg |-> arg, outcome |-> "returned",
                payload |-> payload, error |-> ""]

RaisesMut(op, arg, e) ==
  last_call' = [op |-> op, arg |-> arg, outcome |-> "returned",
                payload |-> [error |-> e], error |-> ""]

\* the call ends with exception e propagating to the caller
Raises(op, arg, e) ==
  last_call' = [op |-> op, arg |-> arg, outcome |-> "raised",
                payload |-> NoPayload, error |-> e]

\* engine.load_definition_file(file_path)
LoadDefinitionFile ==
  /\ Called
  /\ \E file \in DefinitionFiles :
       /\ engine' = AfterLoad(engine, file)
       /\ IF LoadError(file) # ""
          THEN Raises("load_definition_file", [file_path |-> file], LoadError(file))
          ELSE Returns("load_definition_file", [file_path |-> file], [definition |-> file])
  /\ UNCHANGED <<effects, held_schema>>
  /\ UNCHANGED reportVars

\* engine.prepare_database_url(db_url)
PrepareDatabaseUrl ==
  /\ Called
  /\ \E url \in DbUrlArgs :
       LET prepared == PreparedUrl(url, engine.definition_file)
       IN /\ engine' = [engine EXCEPT !.db_url = prepared]
          /\ Returns("prepare_database_url", [db_url |-> url], [db_url |-> prepared])
  /\ UNCHANGED <<effects, held_schema>>
  /\ UNCHANGED reportVars

\* engine.create_generator(strategy)
CreateGenerator ==
  /\ Called
  /\ \E strategy \in Strategies :
       LET e == CreateGeneratorError(strategy, engine.db_url, import_ok)
           g == BuiltGenerator(strategy, engine.db_url, import_ok)
       IN IF e # ""
          THEN /\ Raises("create_generator", [strategy |-> strategy], e)
               /\ UNCHANGED <<engine, effects>>
          ELSE /\ Returns("create_generator", [strategy |-> strategy], [generator |-> g])
               /\ engine' = [engine EXCEPT !.generator = g]
               /\ effects' = [effects EXCEPT !.generators = @ \cup {g}]
  /\ UNCHANGED held_schema
  /\ UNCHANGED reportVars

\* engine.convert_definition_to_generator_schema(definition): "definition or
\* self.definition_schema"; the generator schema goes to the caller only
ConvertDefinition ==
  /\ Called
  /\ \E given \in {"None"} \cup {d \in DefinitionFiles : LoadError(d) = ""} :
       LET definition == IF given # "None" THEN given ELSE engine.definition_schema
           e == ConvertError(definition)
       IN IF e # ""
          THEN /\ Raises("convert_definition_to_generator_schema", [definition |-> given], e)
               /\ UNCHANGED <<effects, held_schema>>
          ELSE /\ Returns("convert_definition_to_generator_schema", [definition |-> given],
                          [generator_schema |-> definition])
               /\ held_schema' = [generator_schema |-> definition]
               /\ effects' = [effects EXCEPT !.schemas = @ \cup {definition}]
  /\ UNCHANGED engine
  /\ UNCHANGED reportVars

PassedSchemaMut(carried, held) == held

\* the generator_schema argument: the schema the caller holds, or None
PassedSchema(carried, held) == IF carried THEN held ELSE NoSchema

\* engine.generate_database_data(generator_schema, num_records), the caller
\* passing the generator schema it holds, or None
GenerateDatabaseData ==
  /\ Called
  /\ \E carried \in BOOLEAN :
       LET generator_schema == PassedSchema(carried, held_schema)
           definition == generator_schema.generator_schema
           arg == [carried |-> carried]
       IN IF engine.generator = NoGenerator
          THEN /\ Raises("generate_database_data", arg,
                         "Generator not created. Call create_generator() first.")
               /\ UNCHANGED <<engine, effects>>
          ELSE IF generator_schema = NoSchema
          THEN /\ Raises("generate_database_data", arg,
                         "'NoneType' object has no attribute 'items'")
               /\ UNCHANGED <<engine, effects>>
          ELSE \E outcome \in GenerateOutcomes(engine.generator) :
                 LET res == GenerationResult(engine, definition, "unset")
                 IN /\ effects' = AfterGenerate(effects, engine.generator,
                                                TablesOf(definition), outcome)
                    /\ IF outcome # "stored"
                       THEN /\ Raises("generate_database_data", arg, "Error storing data")
                            /\ UNCHANGED engine
                       ELSE /\ Returns("generate_database_data", arg, res)
                            /\ engine' = [engine EXCEPT !.generation_result = res]
  /\ UNCHANGED held_schema
  /\ UNCHANGED reportVars

\* engine.export_data(formats): every exception is caught and returned as
\* {"error": str(e)}
ExportData ==
  /\ Called
  /\ IF engine.db_url = "None"
     THEN /\ Returns("export_data", NoPayload,
                     [error |-> "Database URL not available. Generate database first."])
          /\ UNCHANGED engine
     ELSE \E ok \in BOOLEAN :
            LET res == [status |-> "exported", database_url |-> engine.db_url]
            IN IF ok
               THEN /\ Returns("export_data", NoPayload, res)
                    /\ engine' = [engine EXCEPT !.export_result = res]
               ELSE /\ Returns("export_data", NoPayload, [error |-> "Export failed"])
                    /\ UNCHANGED engine
  /\ UNCHANGED <<effects, held_schema>>
  /\ UNCHANGED reportVars

\* generate_report: report_data, without the timestamp, the folder and the
\* statistics; "self.export_result or {}" is NoResult when nothing was exported
ReportData(e) ==
  [db_url             |-> e.db_url,
   definition_file    |-> e.definition_file,
   strategy_used      |-> e.generation_result.strategy_used,
   generation_details |-> e.generation_result,
   export_details     |-> e.export_result]

\* engine.generate_report(): every exception is caught and returned as
\* {"error": str(e)}; a report written outside a workflow is logged as run 0
GenerateReport ==
  /\ Called
  /\ IF engine.generation_result = NoResult
     THEN /\ Returns("generate_report", NoPayload,
                     [error |-> "No generation result available. Generate database first."])
          /\ UNCHANGED reportVars
     ELSE \E ok \in BOOLEAN, tick \in {0, 1} :
            /\ clock' = clock + tick
            /\ IF ok
               THEN /\ Returns("generate_report", NoPayload,
                               [report_file |-> "generation_report.json",
                                report_data |-> ReportData(engine)])
                    /\ report_files' = WriteReport(report_files, clock', 0)
                    /\ report_log' = Append(report_log, [run |-> 0, second |-> clock'])
               ELSE /\ Returns("generate_report", NoPayload, [error |-> "Report failed"])
                    /\ UNCHANGED <<report_files, report_log>>
  /\ UNCHANGED <<engine, effects, held_schema>>

\* the factory function create_generator(strategy, db_url) of
\* database_generator, called directly; without db_url the generator takes
\* its default destination
FactoryCreateGenerator ==
  /\ Called
  /\ import_ok
  /\ \E strategy \in Strategies, url \in DbUrlArgs :
       LET db_url == IF url = "None" THEN "sqlite:///default.db" ELSE url
           e == FactoryError(strategy, db_url)
           g == BuiltGenerator(strategy, db_url, TRUE)
           arg == [strategy |-> strategy, db_url |-> url]
       IN IF e # ""
          THEN /\ Raises("create_generator (factory)", arg, e)
               /\ UNCHANGED effects
          ELSE /\ Returns("create_generator (factory)", arg, [generator |-> g])
               /\ effects' = [effects EXCEPT !.generators = @ \cup {g}]
  /\ UNCHANGED <<engine, held_schema>>
  /\ UNCHANGED reportVars

\* what DatabaseGenerator.generate_database takes for the tables of a
\* definition file: schema['tables'] if the key is there, else the document
DocumentTables(file) ==
  IF file = "no_tables.json" THEN {"schema_info"} ELSE TablesOf(file)

\* DatabaseGenerator.generate_database: the exception raised before
\* generate_and_store stores anything, "" if none
DocumentError(file) ==
  CASE file = "missing.json"    -> "No such file or directory: 'missing.json'"
    [] file = "broken.json"     -> "Expecting value: line 1 column 1 (char 0)"
    [] file = "bad_tables.json" -> "'list' object has no attribute 'items'"
    [] OTHER                    -> ""

\* generator.generate_database(definition_file) on a DatabaseGenerator built
\* earlier
DbGenerateDatabase ==
  /\ Called
  /\ \E g \in {x \in effects.generators : x.kind = "DatabaseGenerator"},
        file \in DefinitionFiles :
       LET arg == [definition_file |-> file]
       IN IF DocumentError(file) # ""
          THEN /\ Raises("DatabaseGenerator.generate_database", arg, DocumentError(file))
               /\ UNCHANGED effects
          ELSE \E outcome \in GenerateOutcomes(g) :
                 /\ effects' = AfterGenerate(effects, g, DocumentTables(file), outcome)
                 /\ IF outcome # "stored"
                    THEN Raises("DatabaseGenerator.generate_database", arg, "Error storing data")
                    ELSE Returns("DatabaseGenerator.generate_database", arg,
                                 [tables_created |-> DocumentTables(file)])
  /\ UNCHANGED <<engine, held_schema>>
  /\ UNCHANGED reportVars

\* ------------------------------------------------------ Schema Translator
\* Swagger documents: whether they hold "components" and, inside it,
\* "schemas"; the schemas by name and type
SwaggerDocs ==
  { [title |-> "bank_api", has_components |-> TRUE, has_schemas |-> TRUE,
     schemas |-> {[name |-> "User", type |-> "object"],
                  [name |-> "CreditCard", type |-> "object"],
                  [name |-> "Status", type |-> "string"]}],
    [title |-> "empty_schemas", has_components |-> TRUE, has_schemas |-> TRUE,
     schemas |-> {}],
    [title |-> "no_schemas", has_components |-> TRUE, has_schemas |-> FALSE,
     schemas |-> {}],
    [title |-> "no_components", has_components |-> FALSE, has_schemas |-> FALSE,
     schemas |-> {}] }

TargetSystems == {"faker", "sdv", "mimesis", "custom"}

\* swagger_schema.get("components", {}).get("schemas", {})
SchemasIn(doc) ==
  IF doc.has_components /\ doc.has_schemas THEN doc.schemas ELSE {}

\* _schema_name_to_table_name
schema_name_to_table_name(schema_name) ==
  CASE schema_name = "User"       -> "users"
    [] schema_name = "CreditCard" -> "credit_cards"
    [] schema_name = "Status"     -> "statuss"

\* SchemaConverter.convert_swagger_to_definition: a table for every schema
\* of type object, the target system written into the definition
convert_swagger_to_definition(swagger_schema, target_system) ==
  [source        |-> "swagger_conversion",
   target_system |-> target_system,
   tables        |-> {schema_name_to_table_name(x.name) :
                        x \in {y \in SchemasIn(swagger_schema) : y.type = "object"}}]

\* SchemaManager.convert_swagger_to_definition: the same walk, without a
\* target system
manager_convert_swagger_to_definition(swagger_schema) ==
  [default_locale |-> "he_IL",
   tables         |-> {schema_name_to_table_name(x.name) :
                         x \in {y \in SchemasIn(swagger_schema) : y.type = "object"}}]

\* SchemaConverter().convert_swagger_to_definition(swagger_schema, target_system)
ConvertSwagger ==
  /\ Called
  /\ \E doc \in SwaggerDocs, target \in TargetSystems :
       Returns("convert_swagger_to_definition", [swagger_schema |-> doc, target_system |-> target],
               convert_swagger_to_definition(doc, target))
  /\ UNCHANGED <<engine, effects, held_schema>>
  /\ UNCHANGED reportVars

\* SchemaManager().convert_swagger_to_definition(swagger_schema)
ManagerConvertSwagger ==
  /\ Called
  /\ \E doc \in SwaggerDocs :
       Returns("SchemaManager.convert_swagger_to_definition", [swagger_schema |-> doc],
               manager_convert_swagger_to_definition(doc))
  /\ UNCHANGED <<engine, effects, held_schema>>
  /\ UNCHANGED reportVars

\* generate_complete_database is called on the engine between stage calls,
\* without a custom destination
RunWorkflow ==
  /\ ops + runs < MaxOps
  /\ StartWorkflow({"generate_complete_database"}, {"None"})
  /\ last_call' = NoCall
  /\ UNCHANGED <<ops, held_schema>>

\* -------------------------------------------------------- ExportManager
FormatNames == {"csv", "json", "excel", "sql", "xml"}

MaxFormats == 2

MaxExportTables == 2

Range(seq) == {seq[i] : i \in 1..Len(seq)}

\* the file a table is exported to: <output_dir>/<table>.<ext>
ExportPath(format, table) == <<"exports", format, table>>

\* the dictionary returned when a format fails as a whole
FormatError(format, e) == [error |-> e, location |-> format, file_count |-> 0]

\* _export_to_csv: a table whose export raises is logged and skipped
export_to_csv(tables, bad) ==
  LET done == Range(tables) \ bad
  IN [files      |-> [x \in done |-> ExportPath("csv", x)],
      location   |-> "csv",
      file_count |-> Cardinality(done)]

\* _export_to_json: as csv, then the combined file is written
export_to_json(tables, bad, combined_ok) ==
  LET done == Range(tables) \ bad
  IN IF combined_ok
     THEN [files      |-> [x \in done \cup {"combined"} |-> ExportPath("json", x)],
           location   |-> "json",
           file_count |-> Cardinality(done) + 1]
     ELSE FormatError("json", "cannot write combined_data.json")

\* _export_to_excel: every table goes into the one workbook inside a single
\* try; an exception for any table leaves the loop and fails the format
export_to_excel(tables, bad) ==
  IF Range(tables) \cap bad = {}
  THEN [files      |-> [x \in {"combined"} |-> ExportPath("excel", x)],
        location   |-> "excel",
        file_count |-> 1]
  ELSE FormatError("excel", "cannot export table")

\* _export_to_sql: a table whose export raises is logged and skipped
export_to_sql(tables, bad) ==
  LET done == Range(tables) \ bad
  IN [files      |-> [x \in done |-> ExportPath("sql", x)],
      location   |-> "sql",
      file_count |-> Cardinality(done)]

\* the tables _export_to_excel wrote into the workbook before the first
\* table that raised
SheetsBeforeFailure(tables, bad) ==
  {tables[i] : i \in {k \in 1..Len(tables) : \A j \in 1..k : tables[j] \notin bad}}

\* sequences of distinct format names of length 1..MaxFormats
RECURSIVE DistinctSeqs(_, _)
DistinctSeqs(S, n) ==
  IF n = 0 THEN {<<>>}
  ELSE LET shorter == DistinctSeqs(S, n - 1)
       IN shorter \cup {Append(q, x) : q \in {p \in shorter : Len(p) = n - 1}, x \in S}

InitExport ==
  /\ exp_formats \in {q \in DistinctSeqs(FormatNames, MaxFormats) :
                        Len(q) >= 1 /\ \A i \in 1..Len(q) : \A j \in 1..Len(q) : i # j => q[i] # q[j]}
  /\ \E n \in 1..MaxExportTables : exp_tables = SubSeq(TableNames, 1, n)
  /\ exp_i = 1
  /\ exp_pc = "run"
  /\ export_results = <<>>
  /\ written = {}
  /\ exp_bad = <<>>
  /\ exp_format_ok = <<>>

IdleExport ==
  /\ exp_formats = <<>>
  /\ exp_tables = <<>>
  /\ exp_i = 1
  /\ exp_pc = "idle"
  /\ export_results = <<>>
  /\ written = {}
  /\ exp_bad = <<>>
  /\ exp_format_ok = <<>>

\* export_results[format_name] = res, and the loop moves to the next format
FormatDone(format, res, files_written, bad, format_ok) ==
  /\ export_results' = (format :> res) @@ export_results
  /\ written' = written \cup {<<format, x>> : x \in files_written}
  /\ exp_bad' = (format :> bad) @@ exp_bad
  /\ exp_format_ok' = (format :> format_ok) @@ exp_format_ok
  /\ exp_i' = exp_i + 1
  /\ UNCHANGED <<exp_formats, exp_tables, exp_pc>>
  /\ UNCHANGED otherThanExport

AtFormat(format) ==
  /\ exp_pc = "run"
  /\ exp_i <= Len(exp_formats)
  /\ exp_formats[exp_i] = format

\* export_data, loop body for "csv"
ExportCsv ==
  /\ AtFormat("csv")
  /\ \E bad \in SUBSET Range(exp_tables) :
       FormatDone("csv", export_to_csv(exp_tables, bad), Range(exp_tables) \ bad, bad, TRUE)

\* export_data, loop body for "json"
ExportJson ==
  /\ AtFormat("json")
  /\ \E bad \in SUBSET Range(exp_tables), combined_ok \in BOOLEAN :
       FormatDone("json", export_to_json(exp_tables, bad, combined_ok),
                  Range(exp_tables) \ bad, bad, combined_ok)

\* export_data, loop body for "excel"; whether the workbook is saved when a
\* table raised depends on the writer
ExportExcel ==
  /\ AtFormat("excel")
  /\ \E bad \in SUBSET Range(exp_tables), saved \in BOOLEAN :
       FormatDone("excel", export_to_excel(exp_tables, bad),
                  IF bad = {} THEN Range(exp_tables)
                  ELSE IF saved THEN SheetsBeforeFailure(exp_tables, bad) ELSE {},
                  bad, TRUE)

\* export_data, loop body for "sql"
ExportSql ==
  /\ AtFormat("sql")
  /\ \E bad \in SUBSET Range(exp_tables) :
       FormatDone("sql", export_to_sql(exp_tables, bad), Range(exp_tables) \ bad, bad, TRUE)

\* export_data, loop body when getattr finds no _export_to_<format>
ExportUnsupported ==
  /\ exp_pc = "run"
  /\ exp_i <= Len(exp_formats)
  /\ exp_formats[exp_i] \notin {"csv", "json", "excel", "sql"}
  /\ FormatDone(exp_formats[exp_i],
                FormatError(exp_formats[exp_i], "Format not supported"), {}, {}, FALSE)

\* export_data, loop body when the format's directory cannot be made or the
\* store cannot be opened: the format's except clause records the error
ExportFormatFails ==
  /\ exp_pc = "run"
  /\ exp_i <= Len(exp_formats)
  /\ FormatDone(exp_formats[exp_i],
                FormatError(exp_formats[exp_i], "cannot open"), {}, {}, FALSE)

\* return export_results
ExportReturn ==
  /\ exp_pc = "run"
  /\ exp_i > Len(exp_formats)
  /\ exp_pc' = "done"
  /\ UNCHANGED <<exp_formats, exp_tables, exp_i, export_results, written, exp_bad, exp_format_ok>>
  /\ UNCHANGED otherThanExport

NextExport ==
  \/ ExportCsv
  \/ ExportJson
  \/ ExportExcel
  \/ ExportSql
  \/ ExportUnsupported
  \/ ExportFormatFails
  \/ ExportReturn

\* ---------------------------------------------------- generator resolution
\* A field name is the sequence of its characters; a Hebrew letter is written
\* "he-<letter>".  Numbers are counted in tenths: n stands for n/10, so an
\* integer is a multiple of Tenth.
MaxBound == 2
MaxGenerated == 2

Tenth == 10

\* SchemaRegistration.field_patterns in registration order (a dict keeps
\* insertion order): the Hebrew mappings, then the English ones
registered_patterns ==
  << [pattern |-> <<"he-tav", "he-ayin", "he-vav", "he-dalet", "he-tav", "_", "he-zayin", "he-he", "he-vav", "he-tav">>, generator_type |-> "israeli_id"],
     [pattern |-> <<"he-mem", "he-samekh", "he-pe", "he-resh", "_", "he-kaf", "he-resh", "he-tet", "he-yod", "he-samekh">>, generator_type |-> "credit_card"],
     [pattern |-> <<"he-mem", "he-samekh", "he-pe", "he-resh", "_", "he-het", "he-shin", "he-bet", "he-vav", "he-nun_final">>, generator_type |-> "account_number"],
     [pattern |-> <<"he-tet", "he-lamed", "he-pe", "he-vav", "he-nun_final">>, generator_type |-> "phone"],
     [pattern |-> <<"he-dalet", "he-vav", "he-alef", "he-resh", "_", "he-alef", "he-lamed", "he-qof", "he-tet", "he-resh", "he-vav", "he-nun", "he-yod">>, generator_type |-> "email"],
     [pattern |-> <<"he-shin", "he-mem_final", "_", "he-pe", "he-resh", "he-tet", "he-yod">>, generator_type |-> "first_name"],
     [pattern |-> <<"he-shin", "he-mem_final", "_", "he-mem", "he-shin", "he-pe", "he-het", "he-he">>, generator_type |-> "last_name"],
     [pattern |-> <<"he-kaf", "he-tav", "he-vav", "he-bet", "he-tav">>, generator_type |-> "address"],
     [pattern |-> <<"he-ayin", "he-yod", "he-resh">>, generator_type |-> "city"],
     [pattern |-> <<"i", "s", "r", "a", "e", "l", "i", "_", "i", "d">>, generator_type |-> "israeli_id"],
     [pattern |-> <<"i", "d", "_", "n", "u", "m", "b", "e", "r">>, generator_type |-> "israeli_id"],
     [pattern |-> <<"c", "r", "e", "d", "i", "t", "_", "c", "a", "r", "d", "_", "n", "u", "m", "b", "e", "r">>, generator_type |-> "credit_card"],
     [pattern |-> <<"a", "c", "c", "o", "u", "n", "t", "_", "n", "u", "m", "b", "e", "r">>, generator_type |-> "account_number"],
     [pattern |-> <<"p", "h", "o", "n", "e">>, generator_type |-> "phone"],
     [pattern |-> <<"e", "m", "a", "i", "l">>, generator_type |-> "email"],
     [pattern |-> <<"f", "i", "r", "s", "t", "_", "n", "a", "m", "e">>, generator_type |-> "first_name"],
     [pattern |-> <<"l", "a", "s", "t", "_", "n", "a", "m", "e">>, generator_type |-> "last_name"],
     [pattern |-> <<"a", "d", "d", "r", "e", "s", "s">>, generator_type |-> "address"],
     [pattern |-> <<"c", "i", "t", "y">>, generator_type |-> "city"] >>

\* the field names of the model: three that match no pattern (age,
\* balance, status), city, capacity, Email, phone_count, email_phone,
\* account_number, and the Hebrew for age, city and name-of-the-city
FieldNames ==
  { <<"a", "g", "e">>,
    <<"b", "a", "l", "a", "n", "c", "e">>,
    <<"s", "t", "a", "t", "u", "s">>,
    <<"c", "i", "t", "y">>,
    <<"c", "a", "p", "a", "c", "i", "t", "y">>,
    <<"E", "m", "a", "i", "l">>,
    <<"p", "h", "o", "n", "e", "_", "c", "o", "u", "n", "t">>,
    <<"e", "m", "a", "i", "l", "_", "p", "h", "o", "n", "e">>,
    <<"a", "c", "c", "o", "u", "n", "t", "_", "n", "u", "m", "b", "e", "r">>,
    <<"he-gimel", "he-yod", "he-lamed">>,
    <<"he-ayin", "he-yod", "he-resh">>,
    <<"he-shin", "he-mem_final", "_", "he-he", "he-ayin", "he-yod", "he-resh">> }

UpperCase == <<"A", "B", "C", "D", "E", "F", "G", "H", "I", "J", "K", "L", "M",
               "N", "O", "P", "Q", "R", "S", "T", "U", "V", "W", "X", "Y", "Z">>

LowerCase == <<"a", "b", "c", "d", "e", "f", "g", "h", "i", "j", "k", "l", "m",
               "n", "o", "p", "q", "r", "s", "t", "u", "v", "w", "x", "y", "z">>

\* str.lower() of one character: Hebrew letters and "_" have no case
lower_char(c) ==
  IF \E i \in 1..26 : UpperCase[i] = c
  THEN LowerCase[CHOOSE i \in 1..26 : UpperCase[i] = c]
  ELSE c

\* str.lower()
lower(s) == [i \in 1..Len(s) |-> lower_char(s[i])]

\* pattern in field_name
Contains(field_name, pattern) ==
  \E k \in 0..(Len(field_name) - Len(pattern)) :
     SubSeq(field_name, k + 1, k + Len(pattern)) = pattern

\* the registered patterns the loop of get_generator_type accepts
SubstringMatches(field_name) ==
  {i \in DOMAIN registered_patterns :
     \/ Contains(field_name, registered_patterns[i].pattern)
     \/ Contains(lower(field_name), lower(registered_patterns[i].pattern))}

\* SchemaRegistration.get_generator_type on any field name: the exact match,
\* else the first registered pattern found in the name, else None
registration_get_generator_type(field_name) ==
  IF \E i \in DOMAIN registered_patterns : registered_patterns[i].pattern = field_name
  THEN registered_patterns[CHOOSE i \in DOMAIN registered_patterns :
                             registered_patterns[i].pattern = field_name].generator_type
  ELSE IF SubstringMatches(field_name) # {}
  THEN registered_patterns[CHOOSE i \in SubstringMatches(field_name) :
                             \A j \in SubstringMatches(field_name) : i <= j].generator_type
  ELSE "None"

\* FieldGeneratorFactory.generators: the registered generator types
generators ==
  {"string", "integer", "float", "date", "datetime", "boolean", "choice", "email", "phone",
   "israeli_id", "credit_card", "account_number", "address", "city", "first_name", "last_name"}

\* the generator create_generator returned and the return statement it left by
Bound(rule, generator) == [rule |-> rule, generator |-> generator]

NoBinding == Bound("None", "None")

\* FieldGeneratorFactory.create_generator(field_name, field_config);
\* field_config.generator is "None" when the hints name no generator
field_create_generatorMut(field_name, field_config) ==
  LET generator_type == registration_get_generator_type(field_name)
  IN IF field_config.generator # "None" /\ field_config.generator \in generators
     THEN Bound("override", field_config.generator)
     ELSE IF field_config.type \in generators
     THEN Bound("type", field_config.type)
     ELSE IF generator_type # "None" /\ generator_type \in generators
     THEN Bound("pattern", generator_type)
     ELSE Bound("fallback", "text")

field_create_generator(field_name, field_config) ==
  LET generator_type == registration_get_generator_type(field_name)
  IN IF field_config.generator # "None" /\ field_config.generator \in generators
     THEN Bound("override", field_config.generator)
     ELSE IF generator_type # "None" /\ generator_type \in generators
     THEN Bound("pattern", generator_type)
     ELSE IF field_config.type \in generators
     THEN Bound("type", field_config.type)
     ELSE Bound("fallback", "text")

\* what a generator call gives: a number, a text, or an exception
Number(kind, n) == [kind |-> kind, n |-> n, s |-> ""]

Text(kind, s) == [kind |-> kind, n |-> 0, s |-> s]

\* fake.text(max_nb_chars=n)
BoundedText(kind, n) == [kind |-> kind, n |-> n, s |-> "text"]

GeneratorRaised(e) == [kind |-> "raised", n |-> 0, s |-> e]

NoValue == [kind |-> "None", n |-> 0, s |-> ""]

\* the random source over lo..hi, sampled at both ends in the given step
Drawn(lo, hi, step) ==
  {n \in {lo + k * step : k \in 0..MaxBound} \cup {hi - k * step : k \in 0..MaxBound} :
     lo <= n /\ n <= hi}

\* round(x, decimals) of a non-negative number of at most one decimal:
\* to the nearest, a tie to the even neighbour
round(x, decimals) ==
  IF decimals >= 1 THEN x
  ELSE LET q == x \div Tenth
           r == x % Tenth
       IN IF 2 * r < Tenth THEN q * Tenth
          ELSE IF 2 * r > Tenth THEN (q + 1) * Tenth
          ELSE IF q % 2 = 0 THEN q * Tenth ELSE (q + 1) * Tenth

\* FieldGeneratorFactory._generate_integer: random.randint(min_val, max_val)
\* raises ValueError on an empty range
generate_integer(constraints) ==
  LET min_val == IF constraints.range.declared THEN constraints.range.min ELSE 1 * Tenth
      max_val == IF constraints.range.declared THEN constraints.range.max ELSE 1000000 * Tenth
  IN IF min_val > max_val
     THEN {GeneratorRaised("ValueError")}
     ELSE {Number("integer", n) : n \in Drawn(min_val, max_val, Tenth)}

\* FieldGeneratorFactory._generate_float: random.uniform(a, b) is
\* a + (b - a) * random(), a number between the two in either order
generate_float(constraints, config) ==
  LET min_val == IF constraints.range.declared THEN constraints.range.min ELSE 0
      max_val == IF constraints.range.declared THEN constraints.range.max ELSE 100000 * Tenth
      lo == IF min_val <= max_val THEN min_val ELSE max_val
      hi == IF min_val <= max_val THEN max_val ELSE min_val
  IN {Number("float", round(x, config.decimals)) : x \in Drawn(lo, hi, 1)}

\* FieldGeneratorFactory._generate_choice: random.choice raises IndexError
\* on an empty list
generate_choice(constraints) ==
  LET choices == IF constraints.choices.declared THEN constraints.choices.list
                 ELSE <<"Option1", "Option2">>
  IN IF Len(choices) = 0
     THEN {GeneratorRaised("IndexError")}
     ELSE {Text("choice", choices[i]) : i \in 1..Len(choices)}

\* the lambda create_generator returned, called once
CallBound(bound, field_config) ==
  CASE bound.generator = "integer" -> generate_integer(field_config)
    [] bound.generator = "float"   -> generate_float(field_config, field_config)
    [] bound.generator = "choice"  -> generate_choice(field_config)
    [] bound.generator = "string"  -> {BoundedText("string", 50)}
    [] bound.generator = "text"    -> {BoundedText("text", 50)}
    [] OTHER                       -> {Text(bound.generator, "provider")}

\* the fields of the model
NoRange == [declared |-> FALSE, min |-> 0, max |-> 0]

NoChoices == [declared |-> FALSE, list |-> <<>>]

\* generation hints naming no generator, a registered one, and one that is
\* not registered
Overrides == {"None", "email", "string", "israeli_phone"}

Decimals == {0, 1, 2}

IntegerRanges ==
  {NoRange} \cup {[declared |-> TRUE, min |-> a * Tenth, max |-> b * Tenth] : a, b \in 0..MaxBound}

FloatRanges ==
  {NoRange} \cup {[declared |-> TRUE, min |-> a, max |-> b] : a, b \in 0..MaxBound}

ChoiceLists ==
  {NoChoices} \cup {[declared |-> TRUE, list |-> l] : l \in {<<>>, <<"a">>, <<"a", "b">>}}

FieldConfig(type, generator, range, decimals, choices) ==
  [type |-> type, generator |-> generator, range |-> range, decimals |-> decimals,
   choices |-> choices]

FieldConfigs ==
  UNION { {FieldConfig("integer", g, r, 2, NoChoices) : r \in IntegerRanges}
          \cup {FieldConfig("float", g, r, d, NoChoices) : r \in FloatRanges, d \in Decimals}
          \cup {FieldConfig("choice", g, NoRange, 2, c) : c \in ChoiceLists}
          \cup {FieldConfig(ty, g, NoRange, 2, NoChoices) : ty \in {"string", "boolean", "object"}}
          : g \in Overrides }

Fields == {[name |-> n, config |-> c] : n \in FieldNames, c \in FieldConfigs}

NoField == [name |-> <<>>, config |-> FieldConfig("string", "None", NoRange, 2, NoChoices)]

IdleResolve ==
  /\ field = NoField
  /\ binding = NoBinding
  /\ value = NoValue
  /\ generated = 0

\* generate_data meets a field of a table
InitResolve ==
  /\ field \in Fields
  /\ binding = NoBinding
  /\ value = NoValue
  /\ generated = 0

\* generate_data creates the generator of the field
ResolveField ==
  /\ field # NoField
  /\ binding = NoBinding
  /\ binding' = field_create_generator(field.name, field.config)
  /\ UNCHANGED <<field, value, generated>>
  /\ UNCHANGED otherThanResolve

\* generate_data calls the field's generator for one more record
CallGenerator ==
  /\ binding # NoBinding
  /\ generated < MaxGenerated
  /\ value' \in CallBound(binding, field.config)
  /\ generated' = generated + 1
  /\ UNCHANGED <<field, binding>>
  /\ UNCHANGED otherThanResolve

NextResolve ==
  \/ ResolveField
  \/ CallGenerator

\* ------------------------------------------------------ schema translation
\* Schema entries and properties are dicts: a function from names for the
\* entries, a sequence of properties of distinct names for "properties"
\* (insertion order decides the fallback primary key).  The Hebrew property
\* name meaning "identity certificate" is written "he:teudat_zehut".
MaxSchemas == 2
MaxProps == 2

SchemaNames == {"User", "user", "Item"}

PropertyNames == {"he:teudat_zehut", "israeli_id", "id", "amount"}

SwaggerTypes == {"string", "integer", "number", "boolean", "array", "object", "uuid"}

SwaggerFormats == {"None", "date", "date-time", "email"}

\* a property definition: "type" (a missing type reads as "string"),
\* "format" and whether it has an "enum" list
Prop(name, type, format, has_enum) ==
  [name |-> name, type |-> type, format |-> format, has_enum |-> has_enum]

PlainProp(name) == Prop(name, "string", "None", FALSE)

Distinct(s) == \A i, j \in 1..Len(s) : i # j => s[i] # s[j]

PropertyLists ==
  {[i \in 1..Len(s) |-> PlainProp(s[i])] :
     s \in {q \in DistinctSeqs(PropertyNames, MaxProps) : Distinct(q)}}

\* a schema entry: an object with properties, or a schema of another type
SchemaEntries ==
  {[type |-> "string", properties |-> <<>>]} \cup
  {[type |-> "object", properties |-> p] : p \in PropertyLists}

\* components/schemas of at most MaxSchemas entries
StructureDocs ==
  UNION {[names -> SchemaEntries] :
           names \in {n \in SUBSET SchemaNames : Cardinality(n) <= MaxSchemas}}

\* components/schemas of one object with one property of any type, format
\* tag and enum list
ShapeDocs ==
  {[n \in {"Item"} |-> [type |-> "object", properties |-> <<Prop(pn, ty, fo, en)>>]] :
     pn \in PropertyNames, ty \in SwaggerTypes, fo \in SwaggerFormats, en \in BOOLEAN}

\* the documents translated
ApiDocs == StructureDocs \cup ShapeDocs

\* HebrewEnglishFieldMapper.get_english_name
get_english_name(hebrew_name) ==
  IF hebrew_name = "he:teudat_zehut" THEN "israeli_id" ELSE hebrew_name

\* SchemaManager._hebrew_to_english_field_name
hebrew_to_english_field_name(field_name) ==
  IF field_name = "he:teudat_zehut" THEN "id_number" ELSE field_name

\* str.lower() of a schema name
LowerName(schema_name) ==
  CASE schema_name = "User" -> "user"
    [] schema_name = "Item" -> "item"
    [] OTHER                -> schema_name

\* SchemaConverter._schema_name_to_table_name on the names of SchemaNames
converter_table_name(schema_name) ==
  IF schema_name = "User" THEN "users" ELSE LowerName(schema_name) \o "s"

\* SchemaManager._schema_name_to_table_name
manager_table_name(schema_name) ==
  IF schema_name = "User" THEN "users" ELSE LowerName(schema_name)

\* SchemaConverter._determine_primary_key: the first candidate among the
\* property names, else the first property, else None
pk_candidates == <<"he:teudat_zehut", "id", "uuid", "he:mispar_kartis", "he:mispar_heshbon",
                   "customer_id", "user_id", "account_number", "card_number">>

PropNames(properties) == {properties[i].name : i \in 1..Len(properties)}

determine_primary_key(properties) ==
  LET found == {i \in 1..Len(pk_candidates) : pk_candidates[i] \in PropNames(properties)}
  IN IF found # {}
     THEN pk_candidates[CHOOSE i \in found : \A j \in found : i <= j]
     ELSE IF Len(properties) > 0 THEN properties[1].name ELSE "None"

\* SchemaConverter._map_swagger_type
map_swagger_type(swagger_type) ==
  CASE swagger_type = "string"  -> "string"
    [] swagger_type = "integer" -> "integer"
    [] swagger_type = "number"  -> "float"
    [] swagger_type = "boolean" -> "boolean"
    [] swagger_type = "array"   -> "array"
    [] swagger_type = "object"  -> "object"
    [] OTHER                    -> "string"

\* SchemaConverter._get_generation_config, the "generator" hint: by the
\* fragments found in the property name, else by the format tag
get_generation_config(prop_name, prop_def) ==
  CASE prop_name = "he:teudat_zehut"  -> "israeli_id"
    [] prop_def.format = "email"      -> "email"
    [] prop_def.format = "date"       -> "past_date"
    [] prop_def.format = "date-time"  -> "past_datetime"
    [] OTHER                          -> "None"

\* a field of a Definition or of a generator schema: "generation" holds the
\* generator named in the hints, "generator" the key of that name in the
\* field itself, "None" when absent
FieldDef(name, type, has_choices, pk_mark, generation, generator, hebrew_name) ==
  [name |-> name, type |-> type, has_choices |-> has_choices, pk_mark |-> pk_mark,
   generation |-> generation, generator |-> generator, hebrew_name |-> hebrew_name]

\* SchemaConverter._convert_property_to_field
convert_property_to_field(prop_name, prop_def) ==
  FieldDef(prop_name,
           IF prop_def.has_enum THEN "choice" ELSE map_swagger_type(prop_def.type),
           prop_def.has_enum, FALSE,
           get_generation_config(prop_name, prop_def), "None", "None")

\* SchemaManager._convert_swagger_property_to_field: the type as declared,
\* "choice" for an enum, then the format tag
convert_swagger_property_to_field(prop_name, prop_def) ==
  FieldDef(prop_name,
           CASE prop_def.format = "date"      -> "date"
             [] prop_def.format = "date-time" -> "datetime"
             [] prop_def.has_enum             -> "choice"
             [] OTHER                         -> prop_def.type,
           prop_def.has_enum, FALSE, "None",
           CASE prop_name = "he:teudat_zehut" -> "israeli_id"
             [] prop_def.format = "email"     -> "email"
             [] OTHER                         -> "None",
           "None")

\* fields[name] = field_def on an insertion-ordered dict
PutField(fields, field_def) ==
  IF \E i \in 1..Len(fields) : fields[i].name = field_def.name
  THEN [i \in 1..Len(fields) |->
          IF fields[i].name = field_def.name THEN field_def ELSE fields[i]]
  ELSE Append(fields, field_def)

FieldNamesOf(fields) == {fields[i].name : i \in 1..Len(fields)}

\* the table names no key, or one of its fields
KeyNamed(table_def) ==
  table_def.primary_key = "None" \/ table_def.primary_key \in FieldNamesOf(table_def.fields)

TableDef(source_schema, primary_key, fields) ==
  [source_schema |-> source_schema, primary_key |-> primary_key, fields |-> fields]

RECURSIVE ConvertedFields(_, _, _)
\* the loop of _convert_schema_to_table over the first n properties
ConvertedFields(properties, primary_key, n) ==
  IF n = 0 THEN <<>>
  ELSE LET prop == properties[n]
           english_name == get_english_name(prop.name)
           field_def == convert_property_to_field(english_name, prop)
       IN PutField(ConvertedFields(properties, primary_key, n - 1),
                   [field_def EXCEPT !.pk_mark = (english_name = primary_key),
                                     !.hebrew_name = prop.name])

\* SchemaConverter._convert_schema_to_table; primary_key "None" stands for
\* a table definition without the key
convert_schema_to_table(schema_name, schema_def) ==
  LET primary_key == determine_primary_key(schema_def.properties)
  IN TableDef(schema_name, primary_key,
              ConvertedFields(schema_def.properties, primary_key, Len(schema_def.properties)))

RECURSIVE ManagerFields(_, _)
ManagerFields(properties, n) ==
  IF n = 0 THEN <<>>
  ELSE PutField(ManagerFields(properties, n - 1),
                convert_swagger_property_to_field(properties[n].name, properties[n]))

\* the table SchemaManager.convert_swagger_to_definition builds for a schema
manager_table(schema_name, schema_def) ==
  LET fields == ManagerFields(schema_def.properties, Len(schema_def.properties))
  IN TableDef("None",
              CASE "he:teudat_zehut" \in FieldNamesOf(fields)   -> "he:teudat_zehut"
                [] "he:mispar_kartis" \in FieldNamesOf(fields)  -> "he:mispar_kartis"
                [] "he:mispar_heshbon" \in FieldNamesOf(fields) -> "he:mispar_heshbon"
                [] OTHER -> IF Len(fields) > 0 THEN fields[1].name ELSE "id",
              fields)

ObjectEntries(doc) == {n \in DOMAIN doc : doc[n].type = "object"}

\* definition["tables"] after the walk over the schemas: a table name two
\* schemas derive keeps the table of one of them
TablesBuilt(built) ==
  {tables \in [{built[n].name : n \in DOMAIN built} -> {built[n].table : n \in DOMAIN built}] :
     \A tn \in DOMAIN tables :
        \E n \in DOMAIN built : built[n].name = tn /\ tables[tn] = built[n].table}

\* the table SchemaConverter derives from every object entry
ConverterBuilt(doc) ==
  [n \in ObjectEntries(doc) |->
     [name |-> converter_table_name(n), table |-> convert_schema_to_table(n, doc[n])]]

\* the table SchemaManager derives from every object entry
ManagerBuilt(doc) ==
  [n \in ObjectEntries(doc) |->
     [name |-> manager_table_name(n), table |-> manager_table(n, doc[n])]]

NotTranslated == [by |-> "None", target_system |-> "None", tables |-> <<>>]

\* DataGenerationEngine.convert_definition_to_generator_schema, one field:
\* the type and the constraints, then update() with the generation hints
generator_field(field_def) ==
  FieldDef(field_def.name, field_def.type, field_def.has_choices, field_def.pk_mark,
           "None",
           IF field_def.generation # "None" THEN field_def.generation ELSE "None",
           "None")

\* ... one table: the fields and metadata.primary_key
generator_table(table_def) ==
  TableDef(table_def.source_schema, table_def.primary_key,
           [i \in 1..Len(table_def.fields) |-> generator_field(table_def.fields[i])])

RECURSIVE DbFields(_, _)
\* SchemaManager._convert_definition_to_db_schema, the loop over the fields:
\* a Hebrew field name is replaced by its English name
DbFields(fields, n) ==
  IF n = 0 THEN <<>>
  ELSE LET english_name == hebrew_to_english_field_name(fields[n].name)
       IN PutField(DbFields(fields, n - 1),
                   IF english_name # fields[n].name
                   THEN [fields[n] EXCEPT !.hebrew_name = fields[n].name, !.name = english_name]
                   ELSE fields[n])

db_schema_table(table_def) ==
  TableDef("None", table_def.primary_key, DbFields(table_def.fields, Len(table_def.fields)))

table_primary_keyMut(table_config) == table_config.primary_key

\* DatabaseGenerator._create_tables_from_schema, the key of one table:
\* metadata.primary_key, else the first field called like an identifier
table_primary_key(table_config) ==
  IF table_config.primary_key # "None" THEN table_config.primary_key
  ELSE LET named == {i \in 1..Len(table_config.fields) :
                       table_config.fields[i].name \in
                         {"id", "he:teudat_zehut", "he:mispar_kartis", "he:mispar_heshbon"}}
       IN IF named # {}
          THEN table_config.fields[CHOOSE i \in named : \A j \in named : i <= j].name
          ELSE "None"

\* ... the columns of one table: an auto-increment id when no key was
\* found, then a column per field
table_columns(table_config) ==
  LET primary_key == table_primary_key(table_config)
  IN (IF primary_key = "None" THEN <<[name |-> "id", primary_key |-> TRUE]>> ELSE <<>>)
     \o [i \in 1..Len(table_config.fields) |->
           [name |-> table_config.fields[i].name,
            primary_key |-> (table_config.fields[i].name = primary_key)]]

KeyColumns(columns) == {i \in 1..Len(columns) : columns[i].primary_key}

\* the mapper refuses a table class without a primary-key column
Mappable(columns) == KeyColumns(columns) # {}

NotMaterialized == [status |-> "None", tables |-> <<>>]

NotStored == [status |-> "None", num_records |-> 0, rows |-> <<>>]

\* the generator schemas a caller writes by hand: tables of plain fields,
\* metadata.primary_key absent or naming one of the fields
GivenTables ==
  {TableDef("None", pk, [i \in 1..Len(q) |->
                           FieldDef(q[i], "string", FALSE, FALSE, "None", "None", "None")]) :
     q \in {x \in DistinctSeqs(PropertyNames, MaxProps) : Distinct(x)},
     pk \in {"None"} \cup PropertyNames} 

GivenSchemas ==
  UNION {[names -> {tb \in GivenTables : KeyNamed(tb)}] : names \in SUBSET {"users", "items"}}

IdleTranslate ==
  /\ swagger = <<>>
  /\ target_arg = "None"
  /\ translated = NotTranslated
  /\ derived = NotTranslated
  /\ materialized = NotMaterialized
  /\ stored = NotStored

\* a document is at hand, or a generator schema written by hand
InitTranslate ==
  /\ \/ /\ swagger \in ApiDocs
        /\ target_arg \in {"faker", "sdv"}
        /\ derived = NotTranslated
     \/ /\ swagger = <<>>
        /\ target_arg = "None"
        /\ \E tables \in GivenSchemas :
              derived = [by |-> "caller", target_system |-> "None", tables |-> tables]
  /\ translated = NotTranslated
  /\ materialized = NotMaterialized
  /\ stored = NotStored

\* SchemaConverter().convert_swagger_to_definition(swagger, target)
TranslateByConverter ==
  /\ translated = NotTranslated
  /\ derived = NotTranslated
  /\ \E tables \in TablesBuilt(ConverterBuilt(swagger)) :
       translated' = [by |-> "SchemaConverter", target_system |-> target_arg, tables |-> tables]
  /\ UNCHANGED <<swagger, target_arg, derived, materialized, stored>>
  /\ UNCHANGED otherThanTranslate

\* SchemaManager().convert_swagger_to_definition(swagger)
TranslateByManager ==
  /\ translated = NotTranslated
  /\ derived = NotTranslated
  /\ \E tables \in TablesBuilt(ManagerBuilt(swagger)) :
       translated' = [by |-> "SchemaManager", target_system |-> "None", tables |-> tables]
  /\ UNCHANGED <<swagger, target_arg, derived, materialized, stored>>
  /\ UNCHANGED otherThanTranslate

\* engine.convert_definition_to_generator_schema(definition)
DeriveGeneratorSchema ==
  /\ translated # NotTranslated
  /\ derived = NotTranslated
  /\ derived' = [by |-> "convert_definition_to_generator_schema", target_system |-> "None",
                 tables |-> [tn \in DOMAIN translated.tables |->
                               generator_table(translated.tables[tn])]]
  /\ UNCHANGED <<swagger, target_arg, translated, materialized, stored>>
  /\ UNCHANGED otherThanTranslate

\* SchemaManager._convert_definition_to_db_schema(definition)
DeriveDbSchema ==
  /\ translated # NotTranslated
  /\ derived = NotTranslated
  /\ derived' = [by |-> "_convert_definition_to_db_schema", target_system |-> "None",
                 tables |-> [tn \in DOMAIN translated.tables |->
                               db_schema_table(translated.tables[tn])]]
  /\ UNCHANGED <<swagger, target_arg, translated, materialized, stored>>
  /\ UNCHANGED otherThanTranslate

\* DatabaseGenerator._create_tables_from_schema(schema) on the derived schema
MaterializeTables ==
  /\ derived # NotTranslated
  /\ materialized = NotMaterialized
  /\ materialized' =
       IF \A tn \in DOMAIN derived.tables : Mappable(table_columns(derived.tables[tn]))
       THEN [status |-> "created",
             tables |-> [tn \in DOMAIN derived.tables |-> table_columns(derived.tables[tn])]]
       ELSE [status |-> "raised", tables |-> <<>>]
  /\ UNCHANGED <<swagger, target_arg, translated, derived, stored>>
  /\ UNCHANGED otherThanTranslate

\* generate_and_store after the tables were created, the destination being
\* empty: generate_data makes n records for every table and _store_data
\* inserts them all and commits, or an insert raises and all is rolled back
StoreGenerated ==
  /\ materialized.status = "created"
  /\ stored = NotStored
  /\ \E n \in 1..MaxRecords, committed \in BOOLEAN :
       stored' = [status |-> IF committed THEN "committed" ELSE "rolled_back",
                  num_records |-> n,
                  rows |-> [tn \in DOMAIN materialized.tables |-> IF committed THEN n ELSE 0]]
  /\ UNCHANGED <<swagger, target_arg, translated, derived, materialized>>
  /\ UNCHANGED otherThanTranslate

NextTranslate ==
  \/ TranslateByConverter
  \/ TranslateByManager
  \/ DeriveGeneratorSchema
  \/ DeriveDbSchema
  \/ MaterializeTables
  \/ StoreGenerated

\* ------------------------------------------------------------ SQL export
\* _export_to_sql, the body of its loop for one table: the CREATE TABLE
\* statement is compiled, the table is read into a frame, every row of the
\* frame becomes an INSERT statement, and the file is written.  Text is a
\* sequence of characters, so that quoting and escaping are computed.
MaxSqlRows == 2

Quote == "'"

\* the types of the columns _create_tables_from_schema declares, and BLOB for
\* a column of a store that some other program made
ColumnTypes == {"INTEGER", "FLOAT", "BOOLEAN", "DATE", "DATETIME", "VARCHAR", "BLOB"}

SqlNull == [kind |-> "NULL"]

\* a float is written with one decimal: whole.tenth
StoredValues(column_type) ==
  CASE column_type = "INTEGER"  -> {[kind |-> "int", n |-> 42]}
    [] column_type = "FLOAT"    -> {[kind |-> "float", whole |-> 1, tenth |-> 5]}
    [] column_type = "BOOLEAN"  -> {[kind |-> "bool", b |-> TRUE]}
    [] column_type = "DATE"     -> {[kind |-> "date", day |-> 2]}
    [] column_type = "DATETIME" -> {[kind |-> "datetime", day |-> 2, hour |-> 9]}
    [] column_type = "VARCHAR"  -> {[kind |-> "str", s |-> <<"O">>],
                                    [kind |-> "str", s |-> <<"O", Quote, "B">>]}
    [] column_type = "BLOB"     -> {[kind |-> "bytes", s |-> <<"x">>]}

\* the stored tables: two columns, up to MaxSqlRows rows, NULL allowed anywhere
SqlRows(columns) ==
  {row \in [1..Len(columns) -> UNION {StoredValues(c) : c \in ColumnTypes} \cup {SqlNull}] :
     \A c \in 1..Len(columns) : row[c] = SqlNull \/ row[c] \in StoredValues(columns[c])}

SqlTables ==
  UNION {{[columns |-> columns, rows |-> rows] :
            rows \in UNION {[1..n -> SqlRows(columns)] : n \in 0..MaxSqlRows}}
           : columns \in ColumnTypes \X ColumnTypes}

\* pd.read_sql_table: the dtype of a column of the frame.  An INTEGER or
\* BOOLEAN column keeps its type only when it holds no NULL; DATE and
\* DATETIME columns are parsed to datetime64
column_dtype(table, c) ==
  LET has_null == \E r \in 1..Len(table.rows) : table.rows[r][c] = SqlNull
      column_type == table.columns[c]
  IN CASE column_type = "INTEGER"  -> IF has_null THEN "float64" ELSE "int64"
       [] column_type = "FLOAT"    -> "float64"
       [] column_type = "BOOLEAN"  -> IF has_null THEN "object" ELSE "bool"
       [] column_type \in {"DATE", "DATETIME"} -> "datetime64"
       [] OTHER -> "object"

\* a stored value as a value of a column of that dtype
as_dtype(cell, dtype) ==
  CASE dtype = "float64" ->
         IF cell \in {SqlNull, [kind |-> "nan"]} THEN [kind |-> "nan"]
         ELSE IF cell.kind = "int" THEN [kind |-> "float", whole |-> cell.n, tenth |-> 0]
         ELSE cell
    [] dtype = "datetime64" ->
         IF cell = SqlNull THEN [kind |-> "NaT"]
         ELSE [kind |-> "Timestamp", day |-> cell.day,
               hour |-> IF cell.kind = "datetime" THEN cell.hour ELSE 0]
    [] OTHER -> IF cell = SqlNull THEN [kind |-> "None"] ELSE cell

\* df.iterrows: a row is a Series of one dtype.  Integer and float columns
\* together give a row of floats; any other mixture gives a row of objects,
\* whose values are kept
row_dtype(dtypes) ==
  IF \A c \in 1..Len(dtypes) : dtypes[c] = dtypes[1] THEN dtypes[1]
  ELSE IF \A c \in 1..Len(dtypes) : dtypes[c] \in {"int64", "float64"} THEN "float64"
  ELSE "object"

read_sql_table(table) ==
  LET dtypes == [c \in 1..Len(table.columns) |-> column_dtype(table, c)]
  IN [r \in 1..Len(table.rows) |->
        [c \in 1..Len(table.columns) |->
           LET held == as_dtype(table.rows[r][c], dtypes[c])
           IN IF row_dtype(dtypes) = "float64" THEN as_dtype(held, "float64") ELSE held]]

\* str(n) for an integer
str_int(n) ==
  LET digit == <<"0", "1", "2", "3", "4", "5", "6", "7", "8", "9">>
      ds == DecimalDigits(IF n < 0 THEN 0 - n ELSE n)
  IN (IF n < 0 THEN <<"-">> ELSE <<>>) \o [i \in 1..Len(ds) |-> digit[ds[i] + 1]]

\* str(value)
str(v) ==
  CASE v.kind = "int"   -> str_int(v.n)
    [] v.kind = "float" -> str_int(v.whole) \o <<".">> \o str_int(v.tenth)
    [] v.kind = "bool"  -> IF v.b THEN <<"T", "r", "u", "e">> ELSE <<"F", "a", "l", "s", "e">>
    [] v.kind = "Timestamp" ->
         <<"2", "0", "2", "4", "-", "0", "1", "-", "0">> \o str_int(v.day)
           \o <<" ", "0">> \o str_int(v.hour) \o <<":", "0", "0", ":", "0", "0">>
    [] v.kind = "str"   -> v.s
    [] v.kind = "bytes" -> <<"b", Quote>> \o v.s \o <<Quote>>

\* value.replace("'", "''")
RECURSIVE replace_quote(_)
replace_quote(s) ==
  IF s = <<>> THEN <<>>
  ELSE (IF Head(s) = Quote THEN <<Quote, Quote>> ELSE <<Head(s)>>) \o replace_quote(Tail(s))

sql_value_formatterMut(v) ==
  IF v.kind \in {"None", "nan", "NaT"} THEN <<"N", "U", "L", "L">>
  ELSE IF v.kind \in {"int", "float", "bool"} THEN str(v)
  ELSE <<Quote>> \o str(v) \o <<Quote>>

\* _sql_value_formatter: None and whatever pd.isna accepts, then int and
\* float (a bool is an int), then datetime and date (a Timestamp is a
\* datetime), then str, then everything else
sql_value_formatter(v) ==
  IF v.kind \in {"None", "nan", "NaT"} THEN <<"N", "U", "L", "L">>
  ELSE IF v.kind \in {"int", "float", "bool"} THEN str(v)
  ELSE IF v.kind = "Timestamp" THEN <<Quote>> \o str(v) \o <<Quote>>
  ELSE <<Quote>> \o replace_quote(str(v)) \o <<Quote>>

\* ', '.join(values)
RECURSIVE join(_)
join(values) ==
  IF values = <<>> THEN <<>>
  ELSE IF Len(values) = 1 THEN values[1]
  ELSE values[1] \o <<",", " ">> \o join(Tail(values))

\* f"INSERT INTO {table_name} (...) VALUES ({', '.join(values)});"
insert_sql(row) ==
  [statement |-> "INSERT INTO",
   values    |-> <<"(">> \o join([c \in 1..Len(row) |-> sql_value_formatter(row[c])])
                   \o <<")">>]

CreateTableSql == [statement |-> "CREATE TABLE", values |-> <<>>]

NoFile == <<>>

IdleSql ==
  /\ sql_table = [columns |-> <<>>, rows |-> <<>>]
  /\ df = <<>>
  /\ create_table_sql = "None"
  /\ insert_statements = <<>>
  /\ sql_file = NoFile
  /\ sql_pc = "idle"

InitSql ==
  /\ sql_table \in SqlTables
  /\ df = <<>>
  /\ create_table_sql = "None"
  /\ insert_statements = <<>>
  /\ sql_file = NoFile
  /\ sql_pc = "table"

\* Table(...), CreateTable(table).compile(engine), pd.read_sql_table
ReadTable ==
  /\ sql_pc = "table"
  /\ create_table_sql' = CreateTableSql
  /\ df' = read_sql_table(sql_table)
  /\ sql_pc' = "rows"
  /\ UNCHANGED <<sql_table, insert_statements, sql_file>>
  /\ UNCHANGED otherThanSql

\* reflecting or reading the table raises: the error is logged, the table
\* gets no file
TableRaises ==
  /\ sql_pc = "table"
  /\ sql_pc' = "skipped"
  /\ UNCHANGED <<sql_table, df, create_table_sql, insert_statements, sql_file>>
  /\ UNCHANGED otherThanSql

\* one turn of "for _, row in df.iterrows()"
FormatRow ==
  /\ sql_pc = "rows"
  /\ Len(insert_statements) < Len(df)
  /\ insert_statements' = Append(insert_statements, insert_sql(df[Len(insert_statements) + 1]))
  /\ UNCHANGED <<sql_table, df, create_table_sql, sql_file, sql_pc>>
  /\ UNCHANGED otherThanSql

\* f.write(create_table_sql + ';\n\n'); f.write('\n'.join(insert_statements))
WriteSqlFile ==
  /\ sql_pc = "rows"
  /\ Len(insert_statements) = Len(df)
  /\ sql_file' = <<create_table_sql>> \o insert_statements
  /\ sql_pc' = "written"
  /\ UNCHANGED <<sql_table, df, create_table_sql, insert_statements>>
  /\ UNCHANGED otherThanSql

NextSql ==
  \/ ReadTable
  \/ TableRaises
  \/ FormatRow
  \/ WriteSqlFile

\* -------------------------------------------- DatabaseGenerator.export_data
\* One frame per table and format is read and written by the branch of the
\* format; file_path is a local of the whole call, assigned only in the csv,
\* json and excel branches.
DbFormats == {"csv", "json", "excel", "sql"}

Unbound == <<"unbound">>

\* output_path / f"{table_name}.<ext>"
DbPath(format, table) == <<"db_folder", "exports", table, format>>

\* the error entry of a table whose export raised
TableError(e) == <<"error", e>>

IdleDbExport ==
  /\ export_formats = <<>>
  /\ table_names = <<>>
  /\ format_i = 0
  /\ table_i = 0
  /\ file_path = Unbound
  /\ format_results = <<>>
  /\ db_results = <<>>
  /\ db_files = {}
  /\ io_failed = {}
  /\ db_pc = "idle"

\* generate_and_store has committed rows into one table or more, the output
\* directory is empty, and a list of formats is asked for
InitDbExport ==
  /\ export_formats \in {q \in DistinctSeqs(DbFormats, MaxFormats) : Len(q) >= 1}
  /\ \E n \in 1..MaxExportTables : table_names = SubSeq(TableNames, 1, n)
  /\ format_i = 1
  /\ table_i = 1
  /\ file_path = Unbound
  /\ format_results = <<>>
  /\ db_results = <<>>
  /\ db_files = {}
  /\ io_failed = {}
  /\ db_pc = "tables"

AtTable ==
  /\ db_pc = "tables"
  /\ format_i <= Len(export_formats)
  /\ table_i <= Len(table_names)

\* format_results[table_name] = ...; next table
TableDone(entry) ==
  /\ format_results' = Append(format_results, entry)
  /\ table_i' = table_i + 1
  /\ UNCHANGED <<export_formats, table_names, format_i, db_results, db_pc>>
  /\ UNCHANGED otherThanDbExport

\* the csv, json or excel branch writes the frame
DbExportTable ==
  /\ AtTable
  /\ export_formats[format_i] \in {"csv", "json", "excel"}
  /\ LET path == DbPath(export_formats[format_i], table_names[table_i])
     IN /\ file_path' = path
        /\ db_files' = db_files \cup {path}
        /\ TableDone(path)
  /\ UNCHANGED io_failed

\* read_sql_table raises, or the writer raises after file_path was assigned:
\* the except clause records the error; the file may or may not be there
DbExportTableRaises ==
  /\ AtTable
  /\ export_formats[format_i] \in {"csv", "json", "excel"}
  /\ LET path == DbPath(export_formats[format_i], table_names[table_i])
     IN \/ /\ UNCHANGED <<file_path, db_files>>
        \/ /\ file_path' = path
           /\ db_files' \in {db_files, db_files \cup {path}}
  /\ io_failed' = io_failed \cup {<<export_formats[format_i], table_names[table_i]>>}
  /\ TableDone(TableError("raised"))

\* no branch for the format: nothing is written and file_path keeps what an
\* earlier turn left in it; reading it unbound raises UnboundLocalError,
\* which the except clause records
DbExportNoBranch ==
  /\ AtTable
  /\ export_formats[format_i] \notin {"csv", "json", "excel"}
  /\ TableDone(IF file_path = Unbound THEN TableError("UnboundLocalError") ELSE file_path)
  /\ UNCHANGED <<file_path, db_files, io_failed>>

\* results[format_name] = {'location': ..., 'files': format_results}
DbFormatDone ==
  /\ db_pc = "tables"
  /\ format_i <= Len(export_formats)
  /\ table_i > Len(table_names)
  /\ db_results' = Append(db_results, [format |-> export_formats[format_i],
                                       location |-> <<"db_folder", "exports">>,
                                       files |-> format_results])
  /\ format_results' = <<>>
  /\ format_i' = format_i + 1
  /\ table_i' = 1
  /\ UNCHANGED <<export_formats, table_names, file_path, db_files, io_failed, db_pc>>
  /\ UNCHANGED otherThanDbExport

\* return results
DbExportReturn ==
  /\ db_pc = "tables"
  /\ format_i > Len(export_formats)
  /\ db_pc' = "returned"
  /\ UNCHANGED <<export_formats, table_names, format_i, table_i, file_path, format_results,
                 db_results, db_files, io_failed>>
  /\ UNCHANGED otherThanDbExport

\* sa.inspect or get_table_names raises: results is {'error': ...}
DbInspectRaises ==
  /\ db_pc = "tables"
  /\ format_i = 1
  /\ table_i = 1
  /\ db_pc' = "failed"
  /\ UNCHANGED <<export_formats, table_names, format_i, table_i, file_path, format_results,
                 db_results, db_files, io_failed>>
  /\ UNCHANGED otherThanDbExport

NextDbExport ==
  \/ DbInspectRaises
  \/ DbExportTable
  \/ DbExportTableRaises
  \/ DbExportNoBranch
  \/ DbFormatDone
  \/ DbExportReturn

\* ------------------------------------- conversion before resolving a field
\* convert_definition_to_generator_schema builds the entry of a field from
\* "type" and "constraints" and then update()s it with the generation hints:
\* the keys of the hints become keys of the entry, and the entry has no key
\* "generation".  create_generator and the generator functions read the hints
\* from field_config.get('generation', {}).
NotConverted == [source |-> NoField, flattened |-> [generator |-> "None", decimals |-> 2]]

\* the entry as create_generator reads it: constraints kept, no hints
converted_field_config(field_def) ==
  FieldConfig(field_def.type, "None", field_def.range, 2, field_def.choices)

\* the keys update() put beside "type" and "constraints"
flattened_hints(field_def) ==
  [generator |-> field_def.generator, decimals |-> field_def.decimals]

IdleConvert == conversion = NotConverted

\* the Definition's field entry goes through
\* convert_definition_to_generator_schema before generate_data meets it
ConvertField ==
  /\ field # NoField
  /\ binding = NoBinding
  /\ conversion = NotConverted
  /\ conversion' = [source |-> field, flattened |-> flattened_hints(field.config)]
  /\ field' = [field EXCEPT !.config = converted_field_config(field.config)]
  /\ UNCHANGED <<binding, value, generated>>
  /\ UNCHANGED otherThanConvert

NextConvert ==
  \/ ConvertField
  \/ ResolveField
  \/ CallGenerator

Next ==
  \/ GenerateCreditCard
  \/ Attempt
  \/ Fallback
  \/ CreateTables
  \/ StoreTable
  \/ StoreCommit
  \/ StoreRollback

\* no generate_and_store run is modelled
IdleGen ==
  /\ schema = <<>>
  /\ num_records = 0
  /\ used_values = [c \in Categories |-> {}]
  /\ result = <<>>
  /\ record = <<>>
  /\ t = 1
  /\ f = 1
  /\ attempts = 0
  /\ calls = <<>>
  /\ pc = "idle"
  /\ db = <<>>
  /\ db0 = <<>>
  /\ session = <<>>
  /\ store_t = 1
  /\ failed_table = 0

\* the first run on a newly built generator
InitRuns ==
  /\ gen_run = 1
  /\ used0 = [c \in Categories |-> {}]

\* no workflow is called
IdlePipe == PipeStart(TRUE)

Init == InitGen /\ IdlePipe /\ IdleExport /\ InitRuns /\ IdleApi /\ IdleResolve /\ IdleTranslate /\ IdleSql /\ IdleDbExport /\ IdleConvert

Spec == Init /\ [][Next]_vars

NextPipe ==
  \/ Call
  \/ StageLoad
  \/ StagePrepareUrl
  \/ StageCreateGenerator
  \/ StageConvert
  \/ StageGenerate
  \/ StageExport
  \/ StageReport

InitP == IdleGen /\ InitPipe /\ IdleExport /\ InitRuns /\ IdleApi /\ IdleResolve /\ IdleTranslate /\ IdleSql /\ IdleDbExport /\ IdleConvert

SpecPipe == InitP /\ [][NextPipe]_vars

InitE == IdleGen /\ IdlePipe /\ InitExport /\ InitRuns /\ IdleApi /\ IdleResolve /\ IdleTranslate /\ IdleSql /\ IdleDbExport /\ IdleConvert

SpecExport == InitE /\ [][NextExport]_vars

NextTools ==
  \/ PrepareDatabaseUrl
  \/ CreateGenerator
  \/ FactoryCreateGenerator
  \/ DbGenerateDatabase
  \/ ConvertSwagger
  \/ ManagerConvertSwagger

SpecTools == InitP /\ [][NextTools]_vars

NextStages ==
  \/ LoadDefinitionFile
  \/ PrepareDatabaseUrl
  \/ CreateGenerator
  \/ ConvertDefinition
  \/ GenerateDatabaseData
  \/ ExportData
  \/ GenerateReport
  \/ RunWorkflow
  \/ StageLoad
  \/ StagePrepareUrl
  \/ StageCreateGenerator
  \/ StageConvert
  \/ StageGenerate
  \/ StageExport
  \/ StageReport

SpecStages == InitP /\ [][NextStages]_vars

FairSpec == Spec /\ WF_vars(Next)

NextRuns ==
  \/ GenerateCreditCard
  \/ Attempt
  \/ Fallback
  \/ CreateTables
  \/ StoreTable
  \/ StoreCommit
  \/ StoreRollback
  \/ GenerateAgain
  \/ GenerateOnNewGenerator

SpecRuns == Init /\ [][NextRuns]_vars

InitR == IdleGen /\ IdlePipe /\ IdleExport /\ InitRuns /\ IdleApi /\ InitResolve /\ IdleTranslate /\ IdleSql /\ IdleDbExport /\ IdleConvert

SpecResolve == InitR /\ [][NextResolve]_vars

InitT == IdleGen /\ IdlePipe /\ IdleExport /\ InitRuns /\ IdleApi /\ IdleResolve /\ InitTranslate /\ IdleSql /\ IdleDbExport /\ IdleConvert

SpecTranslate == InitT /\ [][NextTranslate]_vars

InitS == IdleGen /\ IdlePipe /\ IdleExport /\ InitRuns /\ IdleApi /\ IdleResolve /\ IdleTranslate /\ InitSql /\ IdleDbExport /\ IdleConvert

SpecConvert == InitR /\ [][NextConvert]_vars

SpecSql == InitS /\ [][NextSql]_vars

InitD == IdleGen /\ IdlePipe /\ IdleExport /\ InitRuns /\ IdleApi /\ IdleResolve /\ IdleTranslate /\ IdleSql /\ InitDbExport /\ IdleConvert

SpecDbExport == InitD /\ [][NextDbExport]_vars

\* ------------------------------------------------------------------ claims
\* values of column fi in the generated rows of table ti
Column(ti, fi) == [r \in 1..Len(result[ti]) |-> result[ti][r][fi]]

Tracked(field_name) == CategoryOf(create_generator(field_name)) # "none"

\* C1: within one run, no two generated rows of a table share a value for a
\* field bound to a uniqueness-tracked generator (national ID, phone, email,
\* account number), whether the values come from the retry loop or from the
\* exhaustion fallback.
C1_UniqueColumns ==
  \A ti \in 1..Len(schema) : \A fi \in 1..Len(schema[ti].fields) :
    Tracked(schema[ti].fields[fi]) =>
      \A r1 \in 1..Len(result[ti]) : \A r2 \in 1..Len(result[ti]) :
        r1 # r2 => Column(ti, fi)[r1] # Column(ti, fi)[r2]

\* the check digit as the claim words it: digits at even 0-indexed positions
\* as they are, digits at odd positions doubled, minus 9 when 10 or more
RECURSIVE ClaimSum(_, _)
ClaimSum(ds, n) ==
  IF n = 0 THEN 0
  ELSE LET i == n - 1
           doubled == 2 * ds[n]
       IN ClaimSum(ds, n - 1)
          + (IF i % 2 = 0 THEN ds[n] ELSE IF doubled >= 10 THEN doubled - 9 ELSE doubled)

ValidId(v) ==
  /\ Len(v) = 9
  /\ \A i \in 1..9 : v[i] \in 0..9
  /\ v[9] = (10 - (ClaimSum(v, 8) % 10)) % 10

C8_FallbackRegistered ==
  \A i \in 1..Len(calls) :
    calls[i].exhausted =>
      /\ calls[i].value \in used_values[CategoryOf(calls[i].gen)]
      /\ \A j \in 1..(i - 1) :
           (calls[j].exhausted /\ calls[j].gen = calls[i].gen) => calls[j].value # calls[i].value

\* C9: every call to a uniqueness-tracked generator returns a value after at
\* most 100 candidate attempts, so generating the rows of every table
\* terminates, even when candidates keep colliding.
C9_Terminates ==
  /\ [](attempts < max_attempts \/ (attempts = max_attempts /\ pc = "generate"))
  /\ <>(pc # "generate")

\* generation is over and some call had exhausted its attempts
C9_Witness ==
  /\ pc # "generate"
  /\ \E i \in 1..Len(calls) : calls[i].exhausted

\* C10: the card-number generator is uniqueness-tracked: within one run it
\* never returns a card number it has already returned.
C10_CardsUnique ==
  \A i \in 1..Len(calls) :
    calls[i].gen = "credit_card" =>
      \A j \in 1..(i - 1) : calls[j].gen = "credit_card" => calls[j].value # calls[i].value

StagePrefix == \A i \in 1..Len(stages_run) : i <= Len(StageOrder) /\ stages_run[i] = StageOrder[i]

\* C4: generate_complete_database runs the stages in the order load, prepare
\* URL, create generator, convert schema, generate, export, report, and at the
\* first stage that fails it runs no later stage and returns an error result.
C4_ShortCircuit ==
  /\ StagePrefix
  /\ (pipe_pc = "returned" /\ stages_failed # <<>>) =>
        /\ pipe_result.status = "error"
        /\ stages_run[Len(stages_run)] = stages_failed[1]

\* some field of the result holds the name of the stage
NamesStage(res, stage) == \E k \in DOMAIN res : res[k] = stage

C6_FailureIsolated ==
  exp_pc = "done" =>
    \A i \in 1..Len(exp_formats) :
      LET fmt == exp_formats[i]
      IN /\ fmt \in DOMAIN export_results
         /\ exp_format_ok[fmt] =>
              \A x \in Range(exp_tables) \ exp_bad[fmt] : <<fmt, x>> \in written

\* C7: when exporting one table in one format fails, the result holds an error
\* for that table under that format (its own entry or the format's error); a
\* failed table is never just missing from an otherwise successful format.
C7_FailureRecorded ==
  \A fmt \in DOMAIN export_results : \A x \in exp_bad[fmt] :
    LET res == export_results[fmt]
    IN \/ "error" \in DOMAIN res
       \/ /\ x \in DOMAIN res.files
          /\ res.files[x][1] = "error"

StageMethods == {"load_definition_file", "prepare_database_url", "create_generator",
                 "convert_definition_to_generator_schema", "generate_database_data"}

\* C12 (as claimed): every public operation of the engine, stage method or
\* workflow, ends by returning a payload; no exception reaches the caller.
C12_NoRawException ==
  last_call.outcome # "raised"

\* C12 (amended): the workflows, export_data and generate_report always
\* return, a failure as an error payload; the stage methods
\* load_definition_file, create_generator,
\* convert_definition_to_generator_schema and generate_database_data let the
\* exception reach the caller when their input or the instance is not what
\* they need, and return nothing then.
C12_StageMethodsRaise ==
  /\ last_call.op \in {"export_data", "generate_report"} => last_call.outcome = "returned"
  /\ (last_call.op = "export_data" /\ snapshot.engine.db_url = "None") =>
        "error" \in DOMAIN last_call.payload
  /\ (last_call.op = "generate_report" /\ snapshot.engine.generation_result = NoResult) =>
        "error" \in DOMAIN last_call.payload
  /\ pipe_pc = "returned" => pipe_result.status \in {"success", "error"}
  /\ (pipe_pc = "returned" /\ args.definition_file \in {"missing.json", "broken.json"}) =>
        pipe_result.status = "error"
  /\ (last_call.op = "load_definition_file"
        /\ last_call.arg.file_path \in {"missing.json", "broken.json", "no_tables.json"}) =>
        last_call.outcome = "raised"
  /\ (last_call.op = "create_generator" /\ snapshot.engine.db_url = "None") =>
        last_call.outcome = "raised"
  /\ (last_call.op = "convert_definition_to_generator_schema"
        /\ last_call.arg.definition = "None"
        /\ snapshot.engine.definition_schema = "None") =>
        last_call.outcome = "raised"
  /\ (last_call.op = "generate_database_data" /\ snapshot.engine.generator = NoGenerator) =>
        last_call.outcome = "raised"
  /\ last_call.outcome = "raised" =>
        /\ last_call.op \in StageMethods
        /\ last_call.error # ""
        /\ last_call.payload = NoPayload

\* a stage method raised on an engine on which a workflow had returned
C12_Witness ==
  /\ last_call.outcome = "raised"
  /\ last_call.op \in StageMethods
  /\ runs > 0

\* C13 (as claimed): every stage that succeeds keeps its result on the
\* engine, so the next stage runs from the instance alone: once a
\* conversion has succeeded, generate_database_data does not fail for want of
\* a generator schema.
C13_StagesKeepResults ==
  /\ (last_call.op = "load_definition_file" /\ last_call.outcome = "returned") =>
        engine.definition_schema = last_call.payload.definition
  /\ (last_call.op = "prepare_database_url" /\ last_call.outcome = "returned") =>
        engine.db_url = last_call.payload.db_url
  /\ (last_call.op = "create_generator" /\ last_call.outcome = "returned") =>
        engine.generator = last_call.payload.generator
  /\ (last_call.op = "generate_database_data" /\ last_call.outcome = "returned") =>
        engine.generation_result = last_call.payload
  /\ (last_call.op = "generate_database_data"
        /\ held_schema # NoSchema
        /\ snapshot.engine.generator # NoGenerator) =>
        last_call.error # "'NoneType' object has no attribute 'items'"

\* C13 (amended): load, prepare URL, create generator, generate and export
\* keep their result on the engine; the conversion leaves the engine as it
\* was and hands the generator schema to the caller only, and
\* generate_database_data called without that schema raises.
C13_ConversionNotKept ==
  /\ (last_call.op = "load_definition_file" /\ last_call.outcome = "returned") =>
        engine.definition_schema = last_call.payload.definition
  /\ (last_call.op = "prepare_database_url" /\ last_call.outcome = "returned") =>
        engine.db_url = last_call.payload.db_url
  /\ (last_call.op = "create_generator" /\ last_call.outcome = "returned") =>
        engine.generator = last_call.payload.generator
  /\ (last_call.op = "generate_database_data" /\ last_call.outcome = "returned") =>
        engine.generation_result = last_call.payload
  /\ (last_call.op = "export_data" /\ "error" \notin DOMAIN last_call.payload) =>
        engine.export_result = last_call.payload
  /\ (last_call.op = "convert_definition_to_generator_schema"
        /\ last_call.outcome = "returned") =>
        /\ engine = snapshot.engine
        /\ held_schema = last_call.payload
  /\ (last_call.op = "generate_database_data"
        /\ ~last_call.arg.carried
        /\ snapshot.engine.generator # NoGenerator) =>
        /\ last_call.outcome = "raised"
        /\ last_call.error = "'NoneType' object has no attribute 'items'"

\* after a conversion succeeded on an engine holding a generator,
\* generate_database_data was called without the generator schema
C13_Witness ==
  /\ last_call.op = "generate_database_data"
  /\ ~last_call.arg.carried
  /\ held_schema # NoSchema
  /\ snapshot.engine.generator # NoGenerator
  /\ snapshot.engine.definition_schema # "None"

\* number of reports written by workflow run r
ReportsOf(r) == Cardinality({i \in 1..Len(report_log) : report_log[i].run = r})

\* the report files still hold what was written to them
ReportsIntact ==
  \A i \in 1..Len(report_log) : report_files[report_log[i].second] = report_log[i].run

\* C14 (as claimed): every workflow run, successful or failed, writes
\* exactly one report, and a report once written is never overwritten.
C14_OneReportPerRun ==
  /\ pipe_pc = "returned" => ReportsOf(runs) = 1
  /\ ReportsIntact

\* a load_definition_file call, on its own or as step 1 of a workflow, failed
LoadFailed ==
  \/ last_call.op = "load_definition_file" /\ last_call.outcome = "raised"
  \/ pipe_pc = "returned" /\ stages_failed # <<>> /\ stages_failed[1] = "load"

\* C15: when load_definition_file fails, the engine's definition file,
\* definition, destination URL, generator, generation result and export
\* result are what they were before the call, and a workflow that fails at
\* this step runs no later step and builds no generator, generator schema,
\* table or row.
C15_FailedLoadChangesNothing ==
  /\ LoadFailed => (engine = snapshot.engine /\ effects = snapshot.effects)
  /\ (pipe_pc = "returned" /\ stages_failed # <<>> /\ stages_failed[1] = "load") =>
        stages_run = <<"load">>

\* a load failed on an engine that already held a definition and a
\* generator
C15_Witness ==
  /\ LoadFailed
  /\ snapshot.engine.definition_file # "None"
  /\ snapshot.engine.generator # NoGenerator

\* the definition files whose "tables" section is absent or empty
WithoutTables == {"no_tables.json", "empty_tables.json"}

\* C16: a definition whose "tables" section is absent or empty is refused:
\* load_definition_file raises for it, and a workflow called on it returns
\* an error without producing a generator schema, a table or a row.
C16_NoGenerationWithoutTables ==
  /\ (last_call.op = "load_definition_file" /\ last_call.arg.file_path \in WithoutTables) =>
        last_call.outcome = "raised"
  /\ (pipe_pc = "returned" /\ args.definition_file \in WithoutTables) =>
        /\ pipe_result.status = "error"
        /\ effects.schemas = snapshot.effects.schemas
        /\ effects.tables = snapshot.effects.tables
        /\ effects.rows = snapshot.effects.rows

\* the Swagger document lacks "components" or the "schemas" inside it
LacksSchemas(doc) == ~(doc.has_components /\ doc.has_schemas)

\* C17: converting a Swagger document that has no components/schemas
\* section raises an error instead of returning a definition.
C17_MissingSectionsFail ==
  (last_call.op \in {"convert_swagger_to_definition",
                      "SchemaManager.convert_swagger_to_definition"}
    /\ LacksSchemas(last_call.arg.swagger_schema)) =>
     last_call.outcome = "raised"

UnknownStrategy == "Unknown strategy: sdv. Available strategies: ['faker']"

C11_RunStartsEmpty ==
  \A c \in Categories : used0[c] = {}

\* the constraints the field declares are consistent: min <= max
ConsistentRange(c) == c.range.declared /\ c.range.min <= c.range.max

\* C19: every value generated for a field declared integer or decimal
\* (float) lies within the field's declared [min, max], and every value
\* generated for a field declared enumerated-choice is a member of the
\* field's declared choice set, whatever the field is called; checked on the
\* fields whose hints name no generator.
C19_ValuesWithinDeclared ==
  (generated > 0 /\ field.config.generator = "None") =>
    /\ (field.config.type \in {"integer", "float"} /\ ConsistentRange(field.config)) =>
          /\ value.kind \in {"integer", "float"}
          /\ field.config.range.min <= value.n
          /\ value.n <= field.config.range.max
    /\ (field.config.type = "choice" /\ field.config.choices.declared
          /\ Len(field.config.choices.list) > 0) =>
          /\ value.kind = "choice"
          /\ \E i \in 1..Len(field.config.choices.list) : field.config.choices.list[i] = value.s

\* rule (a): the hints name a generator kind, one the factory knows
OverrideMatches(fld) == fld.config.generator # "None" /\ fld.config.generator \in generators

\* the pattern occurs in the name at some offset, letter case ignored
OccursIgnoringCase(pattern, name) ==
  \E k \in 0..(Len(name) - Len(pattern)) :
     \A j \in 1..Len(pattern) : lower_char(name[k + j]) = lower_char(pattern[j])

\* rule (b): the generator kinds of the patterns the name matches
ExactKinds(name) ==
  {registered_patterns[i].generator_type :
     i \in {j \in DOMAIN registered_patterns : registered_patterns[j].pattern = name}}

SubstringKinds(name) ==
  {registered_patterns[i].generator_type :
     i \in {j \in DOMAIN registered_patterns :
              OccursIgnoringCase(registered_patterns[j].pattern, name)}}

NameMatches(fld) == ExactKinds(fld.name) \cup SubstringKinds(fld.name) # {}

\* rule (c): the declared base type has a generator
TypeMatches(fld) == fld.config.type \in generators

\* C20: the generator of a field is picked by the first rule that matches:
\* (a) the generator kind named in the hints, (b) a registered name pattern,
\* the exact name before a case-insensitive substring, in Hebrew or English,
\* (c) the declared type, (d) text of at most 50 characters; a later rule is
\* never used when an earlier one matches.
C20_FirstMatchingRule ==
  binding # NoBinding =>
    /\ OverrideMatches(field) =>
          binding = Bound("override", field.config.generator)
    /\ (~OverrideMatches(field) /\ NameMatches(field)) =>
          /\ binding.rule = "pattern"
          /\ IF ExactKinds(field.name) # {}
             THEN binding.generator \in ExactKinds(field.name)
             ELSE binding.generator \in SubstringKinds(field.name)
    /\ (~OverrideMatches(field) /\ ~NameMatches(field) /\ TypeMatches(field)) =>
          binding = Bound("type", field.config.type)
    /\ (~OverrideMatches(field) /\ ~NameMatches(field) /\ ~TypeMatches(field)) =>
          /\ binding = Bound("fallback", "text")
          /\ generated > 0 => value = BoundedText("text", 50)

\* a field every rule matches has been bound, and one only a case-insensitive
\* substring and the type match
C20_Witness ==
  /\ binding # NoBinding
  /\ NameMatches(field)
  /\ TypeMatches(field)
  /\ \/ OverrideMatches(field)
     \/ /\ field.config.generator = "None"
        /\ ExactKinds(field.name) = {}
        /\ ~Contains(field.name, <<"e", "m", "a", "i", "l">>)
        /\ binding.generator = "email"

\* the table name the translator that ran derives from a schema name
TableNameBy(by, schema_name) ==
  IF by = "SchemaConverter" THEN converter_table_name(schema_name)
  ELSE manager_table_name(schema_name)

DistinctTableNames(by, doc) ==
  \A m, n \in ObjectEntries(doc) : m # n => TableNameBy(by, m) # TableNameBy(by, n)

\* C21: translating a document with K object-type entries whose derived
\* table names are distinct gives a Definition with exactly K tables, and the
\* table of each entry has as many fields as the entry has properties.
C21_TablesAndFields ==
  (translated # NotTranslated /\ DistinctTableNames(translated.by, swagger)) =>
    /\ Cardinality(DOMAIN translated.tables) = Cardinality(ObjectEntries(swagger))
    /\ \A n \in ObjectEntries(swagger) :
         Len(translated.tables[TableNameBy(translated.by, n)].fields)
           = Len(swagger[n].properties)

KeyIsOwnField(table_def) ==
  table_def.primary_key # "None" => table_def.primary_key \in FieldNamesOf(table_def.fields)

\* C22: in every Definition the translator returns and in every generator
\* schema derived from it, the primary_key of a table, when present, names
\* one of the table's own fields, and every table materialized from the
\* schema has exactly one primary-key column.
C22_PrimaryKeyIsField ==
  /\ \A tn \in DOMAIN translated.tables : KeyIsOwnField(translated.tables[tn])
  /\ \A tn \in DOMAIN derived.tables : KeyIsOwnField(derived.tables[tn])
  /\ materialized # NotMaterialized =>
       /\ materialized.status = "created"
       /\ \A tn \in DOMAIN materialized.tables :
            Cardinality(KeyColumns(materialized.tables[tn])) = 1

\* the seven internal field types: text, integer, decimal, date, datetime,
\* boolean, enumerated-choice
InternalTypes == {"string", "integer", "float", "date", "datetime", "boolean", "choice"}

\* the internal type the mapping rules give a property
MappedType(prop) ==
  CASE prop.has_enum                                   -> "choice"
    [] prop.type = "string" /\ prop.format = "date"      -> "date"
    [] prop.type = "string" /\ prop.format = "date-time" -> "datetime"
    [] prop.type = "string"  -> "string"
    [] prop.type = "number"  -> "float"
    [] prop.type = "integer" -> "integer"
    [] prop.type = "boolean" -> "boolean"
    [] OTHER                 -> "string"

\* C23: a translated field has the internal type the mapping rules give its
\* property: string to text, a string tagged date or date-time to date or
\* datetime, number to decimal, integer to integer, boolean to boolean, any
\* property with an enum list to enumerated-choice, any other type to text;
\* so every field type is one of the seven internal types.
C23_TypeMapping ==
  translated # NotTranslated =>
    \A n \in ObjectEntries(swagger) :
      LET table == translated.tables[TableNameBy(translated.by, n)]
      IN (Len(swagger[n].properties) = 1 /\ table.source_schema \in {n, "None"}) =>
            /\ table.fields[1].type = MappedType(swagger[n].properties[1])
            /\ table.fields[1].type \in InternalTypes

\* the table has a field called like an identifier
IdLikeField(table_def) ==
  FieldNamesOf(table_def.fields) \cap
    {"id", "he:teudat_zehut", "he:mispar_kartis", "he:mispar_heshbon"} # {}

ColumnNames(columns) == {columns[i].name : i \in 1..Len(columns)}

RECURSIVE SplitValues(_)
SplitValues(text) ==
  LET cuts == {i \in 1..(Len(text) - 1) : text[i] = "," /\ text[i + 1] = " "}
  IN IF cuts = {} THEN <<text>>
     ELSE LET i == CHOOSE c \in cuts : \A d \in cuts : c <= d
          IN <<SubSeq(text, 1, i - 1)>> \o SplitValues(SubSeq(text, i + 2, Len(text)))

\* the number of single quotes among the first i characters of s
QuotesUpTo(s, i) == Cardinality({j \in 1..i : s[j] = Quote})

\* text is content between single quotes, each single quote of content
\* written twice and nothing else changed
IsQuoted(text, content) ==
  /\ Len(text) = Len(content) + QuotesUpTo(content, Len(content)) + 2
  /\ text[1] = Quote
  /\ text[Len(text)] = Quote
  /\ \A i \in 1..Len(content) :
       /\ text[1 + i + QuotesUpTo(content, i - 1)] = content[i]
       /\ content[i] = Quote => text[2 + i + QuotesUpTo(content, i - 1)] = Quote

IsBare(text, v) == text = str(v) /\ Quote \notin Range(text)

\* the literal of a value, the kinds in bare being the ones written bare
IsLiteral(text, v, bare) ==
  IF v.kind \in {"None", "nan", "NaT"} THEN text = <<"N", "U", "L", "L">>
  ELSE IF v.kind \in bare THEN IsBare(text, v)
  ELSE IsQuoted(text, str(v))

\* the file holds the CREATE TABLE statement and then one INSERT statement
\* per row, in the order of the rows, each with the literals of its values
FileIsTable(bare) ==
  sql_pc = "written" =>
    /\ Len(sql_file) = 1 + Len(sql_table.rows)
    /\ sql_file[1].statement = "CREATE TABLE"
    /\ \A r \in 1..Len(sql_table.rows) :
         LET written_row == sql_file[r + 1]
             inner == SubSeq(written_row.values, 2, Len(written_row.values) - 1)
             texts == SplitValues(inner)
         IN /\ written_row.statement = "INSERT INTO"
            /\ Head(written_row.values) = "("
            /\ written_row.values[Len(written_row.values)] = ")"
            /\ Len(texts) = Len(df[r])
            /\ \A c \in 1..Len(df[r]) : IsLiteral(texts[c], df[r][c], bare)

OBrien == <<"O", Quote, "B", "r", "i", "e", "n">>

\* the row (None, 42, "O'Brien") is written as (NULL, 42, 'O''Brien')
ExampleRow ==
  insert_sql(<<[kind |-> "None"], [kind |-> "int", n |-> 42], [kind |-> "str", s |-> OBrien]>>).values
    = <<"(", "N", "U", "L", "L", ",", " ", "4", "2", ",", " ",
        Quote, "O", Quote, Quote, "B", "r", "i", "e", "n", Quote, ")">>

ReturnedEntry(format, table_index) ==
  LET i == CHOOSE k \in 1..Len(db_results) : db_results[k].format = format
  IN db_results[i].files[table_index]

\* C26: after a successful generation, DatabaseGenerator.export_data called
\* with formats among csv, json, excel and sql returns, for every requested
\* format and every table, the path of an existing file written in that
\* format for that table (turns in which reading the table or writing the
\* file raised are left aside)
C26_EveryFormatWritten ==
  db_pc = "returned" =>
    \A fmt \in Range(export_formats) : \A ti \in 1..Len(table_names) :
      <<fmt, table_names[ti]>> \notin io_failed =>
        /\ ReturnedEntry(fmt, ti) = DbPath(fmt, table_names[ti])
        /\ ReturnedEntry(fmt, ti) \in db_files

\* the stage methods in the order of the stages Loaded, URLPrepared,
\* GeneratorReady, SchemaConverted, Generated, Exported
StageSequence == <<"load_definition_file", "prepare_database_url", "create_generator",
                  "convert_definition_to_generator_schema", "generate_database_data",
                  "export_data">>

\* stage k has completed successfully on the instance e, eff being what
\* exists outside it
StageCompleted(k, e, eff) ==
  CASE k = 1 -> e.definition_schema # "None"
    [] k = 2 -> e.db_url # "None"
    [] k = 3 -> e.generator # NoGenerator
    [] k = 4 -> eff.schemas # {}
    [] k = 5 -> e.generation_result # NoResult
    [] k = 6 -> e.export_result # NoResult

\* the last call raised, or returned a dictionary with the key "error"
CallFailed ==
  \/ last_call.outcome = "raised"
  \/ "error" \in DOMAIN last_call.payload

\* C27: a stage method called while some earlier stage of Loaded,
\* URLPrepared, GeneratorReady, SchemaConverted, Generated, Exported has not
\* completed on the instance raises or returns an error and changes no
\* stored stage result (so a stage method succeeds only when every earlier
\* stage has completed)
C27_StagesInOrder ==
  \A k \in 1..Len(StageSequence) :
    (/\ snapshot.for = "op"
     /\ last_call.op = StageSequence[k]
     /\ \E j \in 1..(k - 1) : ~StageCompleted(j, snapshot.engine, snapshot.effects))
      => (CallFailed /\ engine = snapshot.engine)

\* C28: whenever the orchestrator holds a generator, the destination the
\* generator writes to is the orchestrator's current db_url, whatever stage
\* calls were made
C28_GeneratorWritesToDbUrl ==
  engine.generator # NoGenerator => engine.generator.db_url = engine.db_url

\* C29: every report generate_report writes describes one run: its
\* definition_file and db_url are the ones of its generation_details, and its
\* export_details, if any, are of an export of the store generated into
C29_ReportOfOneRun ==
  (last_call.op = "generate_report" /\ ~CallFailed) =>
    LET report_data == last_call.payload.report_data
    IN /\ report_data.definition_file = report_data.generation_details.definition_file
       /\ report_data.db_url = report_data.generation_details.database_url
       /\ report_data.export_details # NoResult =>
            report_data.export_details.database_url
              = report_data.generation_details.database_url

\* C30: resolving the generator of a field after
\* convert_definition_to_generator_schema selects the same generator as
\* resolving from the Definition's own field entry; an override named in the
\* generation hints and registered is the generator used after conversion
C30_SameGeneratorAfterConversion ==
  (conversion # NotConverted /\ binding # NoBinding) =>
    /\ binding.generator
         = field_create_generator(conversion.source.name, conversion.source.config).generator
    /\ conversion.source.config.generator \in generators =>
         binding.generator = conversion.source.config.generator

====
